---- MODULE Spec2Model ----
(***************************************************************************)
(* Model of the GTM research engine's concurrent core:                     *)
(*   - CircuitBreaker           (backend/app/core/circuit_breaker.py)      *)
(*   - RunMetrics               (backend/app/core/metrics.py)              *)
(*   - ResearchPipeline.run and ResearchPipeline._execute_one              *)
(*                              (backend/app/services/pipeline.py)         *)
(*   - ResearchStreamGenerator  (backend/app/streaming/stream_generator.py)*)
(*   - SSEFormatter             (backend/app/streaming/sse_formatter.py)   *)
(*   - StreamingAggregator      (backend/app/services/streaming_aggregator.py) *)
(*   - GoogleSearchSource.fetch and RedisCache                             *)
(*                              (backend/app/sources/google_search.py,     *)
(*                               backend/app/db/redis_cache.py)            *)
(* Five specifications are given.  SpecCB drives one CircuitBreaker with   *)
(* arbitrary sequences of its three operations while the monotonic clock   *)
(* advances.  Spec is one batch run of a ResearchPipeline: the fetch tasks *)
(* of run(), each an _execute_one coroutine cut at its suspension points,  *)
(* followed by the per-domain analysis tasks.  SpecStream is one           *)
(* generate_stream() over the events a streamed pipeline run yields.       *)
(* SpecAgg drives one StreamingAggregator with arbitrary sequences of its  *)
(* calls.  SpecFetch is the fetch() calls of one domain's queries, running *)
(* concurrently against the domain's Redis sets.                           *)
(***************************************************************************)
EXTENDS Integers, Sequences, FiniteSets, TLC

(***************************************************************************)
(* Bounds of the model.                                                    *)
(***************************************************************************)
MaxClock == 2        \* time.monotonic() ranges over 0..MaxClock
MaxThreshold == 2    \* failure_threshold ranges over 1..MaxThreshold
MaxTimeout == 2      \* reset_timeout_seconds ranges over 0..MaxTimeout
MaxFailures == 3     \* record_failure is driven while _failure_count < MaxFailures
MaxParallel == 2     \* max_parallel_searches ranges over 0..MaxParallel
MaxRunClock == 1     \* during a run, time.monotonic() ranges over 0..MaxRunClock
MaxRunThreshold == 2 \* settings.circuit_breaker_failures ranges over 1..MaxRunThreshold
MaxRunTimeout == 1   \* settings.circuit_breaker_reset_seconds ranges over 1..MaxRunTimeout
MaxStreamClock == 3  \* during a stream, time.time() ranges over 0..MaxStreamClock
MaxHeartbeat == 1    \* heartbeat_interval ranges over 1..MaxHeartbeat
MaxStreamTasks == 2  \* a streamed run plans 1..MaxStreamTasks fetch tasks
MaxStreamDomains == 1 \* and analyses 0..MaxStreamDomains domains
MaxAggResults == 3   \* add_evidence is driven while total_received_results < MaxAggResults
MaxResults == 2      \* a search returns 0..MaxResults result entries

retry_interval == 1000 \* default of connection_established, in milliseconds

None == -1           \* Python's None for Optional[float] _opened_at

(***************************************************************************)
(* CircuitState (circuit_breaker.py:7-10)                                  *)
(***************************************************************************)
CLOSED == "closed"
OPEN == "open"
HALF_OPEN == "half_open"
CircuitState == {CLOSED, OPEN, HALF_OPEN}

(***************************************************************************)
(* CircuitBreaker (circuit_breaker.py:13-20): a freshly constructed        *)
(* breaker with the two configured fields and the three defaulted ones.    *)
(***************************************************************************)
CircuitBreaker(threshold, timeout) ==
    [failure_threshold |-> threshold,
     reset_timeout_seconds |-> timeout,
     state |-> CLOSED,
     failure_count |-> 0,
     opened_at |-> None]

(***************************************************************************)
(* CircuitBreaker.allow_request (circuit_breaker.py:22-32), at monotonic   *)
(* time t: the value returned, and the breaker it leaves behind.           *)
(***************************************************************************)
allow_request_ret_always(b, t) ==
    TRUE

allow_request_ret(b, t) ==
    IF b.state = CLOSED THEN TRUE
    ELSE IF b.state = OPEN
         THEN IF b.opened_at = None THEN FALSE
              ELSE IF (t - b.opened_at) >= b.reset_timeout_seconds THEN TRUE
              ELSE FALSE
    ELSE TRUE

allow_request_upd_forgiving(b, t) ==
    IF b.state = OPEN /\ b.opened_at # None
       /\ (t - b.opened_at) >= b.reset_timeout_seconds
    THEN [b EXCEPT !.state = HALF_OPEN, !.failure_count = 0]
    ELSE b

allow_request_upd_stay_open(b, t) ==
    b

allow_request_upd_eager(b, t) ==
    IF b.state = OPEN THEN [b EXCEPT !.state = HALF_OPEN] ELSE b

allow_request_upd(b, t) ==
    IF b.state = OPEN /\ b.opened_at # None
       /\ (t - b.opened_at) >= b.reset_timeout_seconds
    THEN [b EXCEPT !.state = HALF_OPEN]
    ELSE b

(***************************************************************************)
(* CircuitBreaker.record_success (circuit_breaker.py:34-37)                *)
(***************************************************************************)
record_success_keep_stamp(b) ==
    [b EXCEPT !.state = CLOSED, !.failure_count = 0]

record_success_keep_count(b) ==
    [b EXCEPT !.state = CLOSED, !.opened_at = None]

record_success(b) ==
    [b EXCEPT !.state = CLOSED, !.failure_count = 0, !.opened_at = None]

(***************************************************************************)
(* CircuitBreaker.record_failure (circuit_breaker.py:39-43), at monotonic  *)
(* time t.                                                                 *)
(***************************************************************************)
record_failure_late(b, t) ==
    LET n == b.failure_count + 1 IN
    IF n > b.failure_threshold
    THEN [b EXCEPT !.failure_count = n, !.state = OPEN, !.opened_at = t]
    ELSE [b EXCEPT !.failure_count = n]

record_failure_fresh(b, t) ==
    LET n == IF b.state = HALF_OPEN THEN 1 ELSE b.failure_count + 1 IN
    IF n >= b.failure_threshold
    THEN [b EXCEPT !.failure_count = n, !.state = OPEN, !.opened_at = t]
    ELSE [b EXCEPT !.failure_count = n, !.state = CLOSED]

record_failure(b, t) ==
    LET n == b.failure_count + 1 IN
    IF n >= b.failure_threshold
    THEN [b EXCEPT !.failure_count = n, !.state = OPEN, !.opened_at = t]
    ELSE [b EXCEPT !.failure_count = n]

(***************************************************************************)
(* State.                                                                  *)
(***************************************************************************)
VARIABLES
    now,                    \* time.monotonic()
    \* one CircuitBreaker driven on its own (SpecCB)
    cb,                     \* the breaker object
    lastOp,                 \* the operation called last
    lastRet,                \* what the last allow_request() returned
    prev,                   \* cb.state before the last operation
    consec,                 \* record_failure() calls since the last record_success()
    openedSince,            \* time at which the breaker last went from not-Open to Open
    probes,                 \* Open->HalfOpen transitions taken since then
    \* one ResearchPipeline and its run() (Spec)
    max_parallel_searches,  \* constructor argument
    strategies,             \* constructor argument: the QueryStrategy list
    company_domains,        \* constructor argument: the domains to research
    source_pools,           \* free slots of each asyncio.Semaphore (default_pool included)
    waiters,                \* per pool, the coroutines blocked in acquire(), oldest first
    breakers,               \* self.breakers
    metrics,                \* self.metrics (RunMetrics)
    pc,                     \* where each _execute_one task stands
    res,                    \* run()'s loop variables: the domain and SourceResult last yielded
    invocations,            \* per channel, how many source.fetch() calls have begun
    runPc,                  \* where run() stands
    completed_count,        \* run()'s local completed_count
    domain_to_evidence,     \* run()'s local domain_to_evidence
    anPc,                   \* where each analyze_domain task stands
    anQueue,                \* finished analysis tasks not yet yielded by as_completed
    anResult,               \* what each finished analyze_domain task returned
    results,                \* run()'s local results
    total_planned,          \* run()'s local total_planned
    succeeded,              \* channels whose Source has returned evidence in this run
    fetched,                \* the tasks whose source.fetch() returned ok with evidences
    analyzer_calls,         \* per domain, the evidence list of each analyze_company() call
    \* run_stream_optimized() of the same pipeline, fed by the same tasks (Spec)
    streamPc,               \* where run_stream_optimized() stands
    stream_completed_count, \* its local completed_count
    stream_domain_to_evidence, \* its local domain_to_evidence
    stream_progress_updates,   \* its local progress_updates
    stream_results,         \* its local results
    stream_events,          \* the events it has yielded
    \* one ResearchStreamGenerator and its generate_stream() (SpecStream)
    heartbeat_interval,     \* constructor argument
    raw_events,             \* what the pipeline's run_stream_optimized() will yield
    raw_pos,                \* how many of them generate_stream has pulled
    stPc,                   \* where generate_stream stands
    event_count,            \* generate_stream's local event_count
    last_heartbeat,         \* generate_stream's local last_heartbeat
    current_time,           \* generate_stream's local current_time
    emitted,                \* the SSE events yielded so far
    yielded_at,             \* the time of the last yield
    \* one StreamingAggregator (SpecAgg)
    domain_states,          \* self.domain_states
    completed_domains,      \* self.completed_domains
    total_received_results, \* self.total_received_results
    agRet,                  \* the last call made, and what it returned or that it raised
    \* the fetch() calls of one domain and its Redis sets (SpecFetch)
    response,               \* per fetch task, the results its search returns
    fetchPc,                \* where each fetch() stands
    fetch_evidences,        \* per fetch task, fetch()'s local evidences
    redis_client,           \* the urls, titles and snippets sets of the domain
    domain_evidence,        \* run()'s domain_to_evidence[domain]
    fetchRunPc              \* where the run() of these fetch tasks stands

cbVars == <<cb, lastOp, lastRet, prev, consec, openedSince, probes>>

(***************************************************************************)
(* SpecCB: a breaker built with any configuration, then any sequence of    *)
(* allow_request / record_success / record_failure calls and clock ticks.  *)
(***************************************************************************)
CB_Init ==
    /\ \E th \in 1..MaxThreshold, to \in 0..MaxTimeout :
           cb = CircuitBreaker(th, to)
    /\ lastOp = "none"
    /\ lastRet = TRUE
    /\ prev = CLOSED
    /\ consec = 0
    /\ openedSince = None
    /\ probes = 0

CB_AllowRequest ==
    /\ lastOp' = "allow_request"
    /\ lastRet' = allow_request_ret(cb, now)
    /\ cb' = allow_request_upd(cb, now)
    /\ prev' = cb.state
    /\ probes' = IF cb.state = OPEN /\ cb'.state = HALF_OPEN THEN probes + 1 ELSE probes
    /\ UNCHANGED <<now, consec, openedSince>>

CB_RecordSuccess ==
    /\ lastOp' = "record_success"
    /\ cb' = record_success(cb)
    /\ prev' = cb.state
    /\ consec' = 0
    /\ UNCHANGED <<now, lastRet, openedSince, probes>>

CB_RecordFailure ==
    /\ cb.failure_count < MaxFailures
    /\ lastOp' = "record_failure"
    /\ cb' = record_failure(cb, now)
    /\ prev' = cb.state
    /\ consec' = consec + 1
    /\ openedSince' = IF cb.state # OPEN /\ cb'.state = OPEN THEN now ELSE openedSince
    /\ probes' = IF cb.state # OPEN /\ cb'.state = OPEN THEN 0 ELSE probes
    /\ UNCHANGED <<now, lastRet>>

Tick(bound) ==
    /\ now < bound
    /\ now' = now + 1

cfgVars == <<max_parallel_searches, strategies, company_domains>>

taskVars == <<source_pools, waiters, breakers, metrics, pc, invocations,
              succeeded, fetched>>

loopVars == <<res, completed_count, domain_to_evidence, runPc, anPc, results>>

anVars == <<anQueue, anResult, analyzer_calls>>

srVars == <<streamPc, stream_completed_count, stream_domain_to_evidence,
            stream_progress_updates, stream_results, stream_events>>

plVars == <<cfgVars, taskVars, loopVars, anVars, total_planned, srVars>>

stVars == <<heartbeat_interval, raw_events, raw_pos, stPc, event_count,
            last_heartbeat, current_time, emitted, yielded_at>>

agVars == <<domain_states, completed_domains, total_received_results, agRet>>

fcVars == <<response, fetchPc, fetch_evidences, redis_client, domain_evidence,
            fetchRunPc>>

vars == <<now, cbVars, plVars, stVars, agVars, fcVars>>

(***************************************************************************)
(* The pipeline's collaborators.                                           *)
(***************************************************************************)
\* self.sources (pipeline.py:51-54)
Sources == {"google_search", "news_search"}

\* the channels a generated strategy may name (query_generation.py:190)
SupportedChannels == {"google_search", "news_search", "jobs_search"}

\* the semaphores of __init__ (pipeline.py:44-48)
PoolNames == {"google_search", "news_search", "default_pool"}

\* QueryStrategy (search.py:4-12); a query_template is given by the names of
\* the replacement fields it holds
QueryStrategy(channel, query_template) ==
    [channel |-> channel, query_template |-> query_template]

\* the keyword arguments build_query passes to str.format (search.py:22-24)
FormatArgs == {"DOMAIN", "COMPANY_NAME"}

\* QueryStrategy.build_query (search.py:14-24): jobs_search returns the
\* template as it is; the other channels format it, and str.format raises
\* KeyError for a replacement field it was given no argument for
build_query(strategy, company_domain) ==
    IF strategy.channel = "jobs_search"
    THEN [raised |-> FALSE, fields |-> strategy.query_template, domain |-> 0]
    ELSE IF strategy.query_template \subseteq FormatArgs
    THEN [raised |-> FALSE, fields |-> {}, domain |-> company_domain]
    ELSE [raised |-> TRUE, fields |-> strategy.query_template \ FormatArgs,
          domain |-> company_domain]

\* the strategy lists a run is given: _is_valid_strategy
\* (query_generation.py:204-222) admits the three channels and, for the two
\* search channels, any template that holds {DOMAIN} or {COMPANY_NAME}
StrategyLists ==
    { <<QueryStrategy("google_search", {"DOMAIN"}),
        QueryStrategy("google_search", {"DOMAIN"})>>,
      <<QueryStrategy("google_search", {"DOMAIN"}),
        QueryStrategy("news_search", {"COMPANY_NAME"})>>,
      <<QueryStrategy("jobs_search", {}),
        QueryStrategy("google_search", {"DOMAIN"})>>,
      <<QueryStrategy("google_search", {"DOMAIN"}),
        QueryStrategy("news_search", {"COMPANY_NAME", "TOPIC"})>> }

\* get_settings() (config.py:18-29), over the configurations modelled
SettingsSet ==
    [circuit_breaker_failures : 1..MaxRunThreshold,
     circuit_breaker_reset_seconds : 1..MaxRunTimeout]

\* the company_domains lists a run is given (request.py:8 takes any list of
\* strings): two different domains, the same domain twice, and one domain
DomainLists == { <<1, 2>>, <<1, 1>>, <<1>> }

\* the domains named in self.company_domains
Domains == {company_domains[i] : i \in 1..Len(company_domains)}

Max(a, b) == IF a >= b THEN a ELSE b

\* RunMetrics (metrics.py:7-16)
RunMetrics == [total_queries_executed |-> 0, failed_requests |-> 0]
metrics_record_failure_lost(m, n) == m
record_query(m, n) == [m EXCEPT !.total_queries_executed = @ + n]
metrics_record_failure(m, n) == [m EXCEPT !.failed_requests = @ + n]

\* the tasks of run(), in creation order: domain-major, strategy-minor
\* (pipeline.py:143-150)
NumTasks_one_per_domain == Len(company_domains)

NumTasks == Len(company_domains) * Len(strategies)
Tasks == 1..NumTasks
TaskDomain(t) == company_domains[((t - 1) \div Len(strategies)) + 1]
TaskStrategy(t) == strategies[((t - 1) % Len(strategies)) + 1]
TaskChannel(t) == TaskStrategy(t).channel

\* self.source_pools.get(strategy.channel, self.default_pool) (pipeline.py:92)
PoolOf(channel) ==
    IF channel \in {"google_search", "news_search"} THEN channel ELSE "default_pool"

\* the tasks whose source.fetch() call has started and not yet returned or raised
InFlight(channel) ==
    {t \in Tasks : pc[t] \in {"fetching", "hung"} /\ TaskChannel(t) = channel}

\* Optional[str] error of a SourceResult that has none (base.py:14)
NoError == "None"

\* SourceResult (base.py:7-14)
SourceResult(evidences, ok, error) ==
    [evidences |-> evidences, ok |-> ok, error |-> error]

\* the evidences a successful fetch of task t returns: one item, named by t
EvidencesOf(t) == <<t>>

\* Evidence.source_name (google_search.py:68): the channel of the Source that
\* returned the item
source_name(evidence) == TaskChannel(evidence)

\* Findings and CompanyResearchResult (response.py:13-23); a confidence_score
\* is held in hundredths
Findings(technologies, evidence, signals_found) ==
    [technologies |-> technologies, evidence |-> evidence,
     signals_found |-> signals_found]

CompanyResearchResult(domain, confidence_score, evidence_sources, findings) ==
    [domain |-> domain, confidence_score |-> confidence_score,
     evidence_sources |-> evidence_sources, findings |-> findings]

\* the value a task that has returned nothing yet holds
NoResult == CompanyResearchResult(0, 0, 0, Findings(<<>>, <<>>, 0))

\* what analyze_company returns (extractor.py:266-270); the score it gives
\* is in thousandths
AnalysisResults ==
    { [technologies |-> <<>>, goal_match_signals |-> <<>>, confidence_score |-> 0],
      [technologies |-> <<"tech">>, goal_match_signals |-> <<"signal">>,
       confidence_score |-> 875] }

\* round(confidence_score, 2) (pipeline.py:201): thousandths to hundredths
Round2(x) == (x + 5) \div 10

\* one yielded string: orjson.dumps of a dict with a "type" entry
RawEvent(type, progress) ==
    [json |-> TRUE, object |-> TRUE, type |-> type, progress |-> progress]

\* progress_updates (pipeline.py:254)
progress_updates == {25, 50, 75, 100}

\* int((completed_count / total_planned) * 100) (pipeline.py:265)
progress_percent(completed, planned) == (completed * 100) \div planned

(***************************************************************************)
(* ResearchPipeline.__init__ (pipeline.py:21-63)                           *)
(***************************************************************************)
PL_Init ==
    /\ max_parallel_searches \in 0..MaxParallel
    /\ strategies \in StrategyLists
    /\ company_domains \in DomainLists
    /\ source_pools = [p \in PoolNames |->
                          IF p = "default_pool"
                          THEN Max(max_parallel_searches \div 4, 2)
                          ELSE max_parallel_searches]
    /\ waiters = [p \in PoolNames |-> <<>>]
    /\ \E st \in SettingsSet :
           breakers = [c \in Sources |->
                          CircuitBreaker(st.circuit_breaker_failures,
                                         st.circuit_breaker_reset_seconds)]
    /\ metrics = RunMetrics
    /\ pc = [t \in Tasks |-> "none"]
    /\ res = [domain |-> 0, result |-> SourceResult(<<>>, FALSE, NoError)]
    /\ invocations = [c \in Sources |-> 0]
    /\ runPc = "init"
    /\ completed_count = 0
    /\ domain_to_evidence = [d \in Domains |-> <<>>]
    /\ anPc = [d \in Domains |-> "none"]
    /\ anQueue = <<>>
    /\ anResult = [d \in Domains |-> NoResult]
    /\ results = <<>>
    /\ total_planned = 0
    /\ succeeded = {}
    /\ fetched = {}
    /\ analyzer_calls = [d \in Domains |-> <<>>]
    /\ streamPc = "init"
    /\ stream_completed_count = 0
    /\ stream_domain_to_evidence = [d \in Domains |-> <<>>]
    /\ stream_progress_updates = progress_updates
    /\ stream_results = <<>>
    /\ stream_events = <<>>

(***************************************************************************)
(* ResearchPipeline.run (pipeline.py:134-179): the parts of it that the    *)
(* steps of the tasks below run into.                                      *)
(***************************************************************************)
\* _build_company_result (pipeline.py:181-204)
build_company_result(d, evidences, analysis_result) ==
    CompanyResearchResult(
        d,
        Round2(analysis_result.confidence_score),
        Cardinality({source_name(evidences[i]) : i \in 1..Len(evidences)}),
        Findings(analysis_result.technologies, evidences,
                 Len(analysis_result.goal_match_signals)))

\* _build_empty_result (pipeline.py:206-219)
build_empty_result_half(d) ==
    CompanyResearchResult(d, 50, 0, Findings(<<>>, <<>>, 0))

build_empty_result(d) ==
    CompanyResearchResult(d, 0, 0, Findings(<<>>, <<>>, 0))

\* the orders in which a Python set can be iterated
Orders(S) ==
    {f \in [1..Cardinality(S) -> S] : \A i, j \in 1..Cardinality(S) : f[i] = f[j] => i = j}

\* set(self.company_domains) - set(domain_to_evidence.keys()) (pipeline.py:174)
MissingDomains(d2e) == {d \in Domains : d2e[d] = <<>>}

\* pipeline.py:173-179, the tail of run() once every analysis was collected
FinishRun(collected, d2e) ==
    \E order \in Orders(MissingDomains(d2e)) :
        /\ results' = collected \o [i \in 1..Len(order) |-> build_empty_result(order[i])]
        /\ runPc' = "returned"

\* pipeline.py:163-167, and the rest of run() when there is nothing to analyse
StartAnalysis(d2e) ==
    IF \A d \in Domains : d2e[d] = <<>>
    THEN /\ FinishRun(<<>>, d2e)
         /\ UNCHANGED anPc
    ELSE /\ anPc' = [d \in Domains |-> IF d2e[d] # <<>> THEN "created" ELSE "none"]
         /\ runPc' = "analyze"
         /\ UNCHANGED results

\* pipeline.py:156-167: one iteration of the as_completed loop over the fetch
\* tasks, for task t returning `result`; after the last one the analysis
\* tasks are created.  as_completed yields the tasks in the order they finish
\* and no task reads what the loop body writes, so the iteration is taken in
\* the step of the completion that feeds it.  Once run() has raised nobody
\* awaits the tasks that are still running.
Run_Collect(t, result) ==
    IF runPc # "collect"
    THEN UNCHANGED loopVars
    ELSE LET d2e == IF result.ok /\ result.evidences # <<>>
                    THEN [domain_to_evidence EXCEPT
                              ![TaskDomain(t)] = @ \o result.evidences]
                    ELSE domain_to_evidence
         IN
         /\ res' = [domain |-> TaskDomain(t), result |-> result]
         /\ completed_count' = completed_count + 1
         /\ domain_to_evidence' = d2e
         /\ IF completed_count + 1 = NumTasks
            THEN StartAnalysis(d2e)
            ELSE UNCHANGED <<runPc, anPc, results>>

\* pipeline.py:157: `await coro` re-raises what a fetch task raised, and
\* run() has no handler for it
Run_Reraise ==
    IF runPc # "collect"
    THEN UNCHANGED loopVars
    ELSE /\ runPc' = "raised"
         /\ UNCHANGED <<res, completed_count, domain_to_evidence, anPc, results>>

(***************************************************************************)
(* ResearchPipeline.run_stream_optimized (pipeline.py:221-366), run on the *)
(* same entities and strategies as run() and fed by the same task          *)
(* outcomes: its fetch tasks are the same _execute_one coroutines          *)
(* (pipeline.py:242-249) and its analysis tasks run analyze_domain_async,  *)
(* whose body is that of analyze_domain (pipeline.py:295-304), so each     *)
(* task completion below is handed to both loops.  A yield is taken as     *)
(* soon as it is reached: the consumer keeps pulling.                      *)
(***************************************************************************)
\* the pipeline_complete event and the results it carries
\* (pipeline.py:350-366)
PipelineComplete(carried) ==
    [json |-> TRUE, object |-> TRUE, type |-> "pipeline_complete",
     progress |-> 0, results |-> carried]

\* pipeline.py:338-366: the empty results of the domains without evidence
\* are appended and pipeline_complete is yielded
Stream_Finish_without_missing(events, collected, d2e) ==
    /\ stream_results' = collected
    /\ stream_events' = Append(events, PipelineComplete(collected))
    /\ streamPc' = "returned"

Stream_Finish(events, collected, d2e) ==
    \E order \in Orders(MissingDomains(d2e)) :
        LET all == collected
                     \o [i \in 1..Len(order) |-> build_empty_result(order[i])]
        IN
        /\ stream_results' = all
        /\ stream_events' = Append(events, PipelineComplete(all))
        /\ streamPc' = "returned"

\* pipeline.py:278-323: evidence_complete and analysis_start are yielded and
\* an analysis task is created for every domain with evidence
Stream_StartAnalysis_unordered(events, d2e) ==
    LET yielded == events \o <<RawEvent("analysis_start", 0),
                                RawEvent("evidence_complete", 0)>>
    IN
    IF \A d \in Domains : d2e[d] = <<>>
    THEN Stream_Finish(yielded, <<>>, d2e)
    ELSE /\ streamPc' = "analyze"
         /\ stream_events' = yielded
         /\ UNCHANGED stream_results

Stream_StartAnalysis(events, d2e) ==
    LET yielded == events \o <<RawEvent("evidence_complete", 0),
                                RawEvent("analysis_start", 0)>>
    IN
    IF \A d \in Domains : d2e[d] = <<>>
    THEN Stream_Finish(yielded, <<>>, d2e)
    ELSE /\ streamPc' = "analyze"
         /\ stream_events' = yielded
         /\ UNCHANGED stream_results

\* pipeline.py:257-276: one iteration of the as_completed loop over the fetch
\* tasks, for task t returning `result`
Stream_Collect(t, result) ==
    IF streamPc # "collect"
    THEN UNCHANGED srVars
    ELSE LET d2e == IF result.ok /\ result.evidences # <<>>
                    THEN [stream_domain_to_evidence EXCEPT
                              ![TaskDomain(t)] = @ \o result.evidences]
                    ELSE stream_domain_to_evidence
             count == stream_completed_count + 1
             percent == progress_percent(count, NumTasks)
             events == IF percent \in stream_progress_updates
                       THEN Append(stream_events,
                                   RawEvent("evidence_progress", percent))
                       ELSE stream_events
         IN
         /\ stream_completed_count' = count
         /\ stream_domain_to_evidence' = d2e
         /\ stream_progress_updates' = stream_progress_updates \ {percent}
         /\ IF count = NumTasks
            THEN Stream_StartAnalysis(events, d2e)
            ELSE /\ stream_events' = events
                 /\ UNCHANGED <<streamPc, stream_results>>

\* pipeline.py:258: `await coro` re-raises what a fetch task raised
Stream_Reraise ==
    IF streamPc # "collect"
    THEN UNCHANGED srVars
    ELSE /\ streamPc' = "raised"
         /\ UNCHANGED <<stream_completed_count, stream_domain_to_evidence,
                        stream_progress_updates, stream_results, stream_events>>

\* pipeline.py:325-336: one iteration of the as_completed loop over the
\* analysis tasks, for the task of domain d; `await task_coro` re-raises what
\* the task raised
Stream_CollectAnalysis(d) ==
    IF streamPc # "analyze"
    THEN UNCHANGED srVars
    ELSE /\ IF anPc[d] = "raised"
            THEN /\ streamPc' = "raised"
                 /\ UNCHANGED <<stream_results, stream_events>>
            ELSE LET collected == Append(stream_results, anResult[d])
                     events == Append(stream_events,
                                      RawEvent("domain_analyzed", Len(collected)))
                 IN
                 IF Len(collected)
                      = Cardinality(Domains \ MissingDomains(stream_domain_to_evidence))
                 THEN Stream_Finish(events, collected, stream_domain_to_evidence)
                 ELSE /\ stream_results' = collected
                      /\ stream_events' = events
                      /\ UNCHANGED streamPc
         /\ UNCHANGED <<stream_completed_count, stream_domain_to_evidence,
                        stream_progress_updates>>

\* pipeline.py:157 (run) and pipeline.py:258 (run_stream_optimized): the task
\* running the pipeline is cancelled while it awaits the next fetch task, and
\* CancelledError leaves the loop.  The fetch tasks were handed to the event
\* loop by asyncio.create_task (pipeline.py:143, 243) and as_completed does
\* not cancel them, so they stay scheduled.
Run_Cancel ==
    /\ runPc = "collect"
    /\ runPc' = "cancelled"
    /\ streamPc' = "cancelled"
    /\ UNCHANGED <<now, cbVars, stVars, agVars, fcVars, cfgVars, taskVars, res, completed_count,
                   domain_to_evidence, anPc, results, anVars, total_planned,
                   stream_completed_count, stream_domain_to_evidence,
                   stream_progress_updates, stream_results, stream_events>>

\* pipeline.py:143-154: the fetch tasks are created
Run_CreateTasks ==
    /\ runPc = "init"
    /\ pc' = [t \in Tasks |-> "created"]
    /\ total_planned' = NumTasks
    /\ runPc' = "collect"
    /\ stream_events' = <<RawEvent("pipeline_start", 0)>>
    /\ streamPc' = "collect"
    /\ UNCHANGED <<now, cbVars, stVars, agVars, fcVars, cfgVars, source_pools, waiters, breakers, metrics,
                   invocations, succeeded, fetched, res, completed_count,
                   domain_to_evidence, anPc, results, anVars,
                   stream_completed_count, stream_domain_to_evidence,
                   stream_progress_updates, stream_results>>

(***************************************************************************)
(* ResearchPipeline._execute_one (pipeline.py:65-120), cut at its          *)
(* suspension points: the semaphore's acquire() and the awaited fetch().   *)
(***************************************************************************)
\* asyncio.Semaphore.locked(): no free slot, or somebody is already queued
Locked_ignore_value(p) == waiters[p] # <<>>

Locked(p) == source_pools[p] = 0 \/ waiters[p] # <<>>

\* __aexit__ of `async with source_pool` (pipeline.py:95): release()
Release_none(pools, p) == pools

Release_twice(pools, p) == [pools EXCEPT ![p] = @ + 2]

Release(pools, p) == [pools EXCEPT ![p] = @ + 1]

\* first step of the task, up to its first suspension (pipeline.py:68-97):
\* tasks are first scheduled in creation order
Exec_Start(t) ==
    /\ pc[t] = "created"
    /\ \A u \in Tasks : u < t => pc[u] # "created"
    /\ LET c == TaskChannel(t)
           query == build_query(TaskStrategy(t), TaskDomain(t))
       IN
       IF query.raised
       THEN \* pipeline.py:68, outside any try: the task ends with the error
            /\ pc' = [pc EXCEPT ![t] = "raised"]
            /\ Run_Reraise
            /\ Stream_Reraise
            /\ UNCHANGED <<breakers, source_pools, waiters, invocations>>
       ELSE IF c \notin Sources
       THEN \* pipeline.py:70-79
            /\ pc' = [pc EXCEPT ![t] = "done"]
            /\ Run_Collect(t, SourceResult(<<>>, FALSE, "unknown channel"))
            /\ Stream_Collect(t, SourceResult(<<>>, FALSE, "unknown channel"))
            /\ UNCHANGED <<breakers, source_pools, waiters, invocations>>
       ELSE LET b == breakers[c]
                p == PoolOf(c)
            IN
            /\ breakers' = [breakers EXCEPT ![c] = allow_request_upd(b, now)]
            /\ IF ~allow_request_ret(b, now)
               THEN \* pipeline.py:82-90
                    /\ pc' = [pc EXCEPT ![t] = "done"]
                    /\ Run_Collect(t, SourceResult(<<>>, FALSE, "circuit open"))
                    /\ Stream_Collect(t, SourceResult(<<>>, FALSE, "circuit open"))
                    /\ UNCHANGED <<source_pools, waiters, invocations>>
               ELSE IF Locked(p)
               THEN \* pipeline.py:95, acquire() blocks
                    /\ pc' = [pc EXCEPT ![t] = "waiting"]
                    /\ waiters' = [waiters EXCEPT ![p] = Append(@, t)]
                    /\ UNCHANGED <<source_pools, invocations, loopVars, srVars>>
               ELSE \* pipeline.py:95-99, slot taken and fetch() called
                    /\ pc' = [pc EXCEPT ![t] = "fetching"]
                    /\ source_pools' = [source_pools EXCEPT ![p] = @ - 1]
                    /\ invocations' = [invocations EXCEPT ![c] = @ + 1]
                    /\ UNCHANGED <<waiters, loopVars, srVars>>
    /\ UNCHANGED <<now, cbVars, stVars, agVars, fcVars, cfgVars, metrics, succeeded, fetched, anVars,
                   total_planned>>

\* a blocked acquire() gets its slot, oldest waiter first, and fetch() is
\* called (pipeline.py:95-99)
Exec_Acquire(t) ==
    /\ pc[t] = "waiting"
    /\ LET p == PoolOf(TaskChannel(t)) IN
       /\ waiters[p] # <<>>
       /\ Head(waiters[p]) = t
       /\ source_pools[p] > 0
       /\ source_pools' = [source_pools EXCEPT ![p] = @ - 1]
       /\ waiters' = [waiters EXCEPT ![p] = Tail(@)]
    /\ pc' = [pc EXCEPT ![t] = "fetching"]
    /\ invocations' = [invocations EXCEPT ![TaskChannel(t)] = @ + 1]
    /\ UNCHANGED <<now, cbVars, stVars, agVars, fcVars, cfgVars, breakers, metrics, succeeded, fetched,
                   loopVars, anVars, total_planned, srVars>>

\* the task is cancelled (the event loop cancels the tasks a cancelled run()
\* left behind when it shuts down) and CancelledError is raised at the await
\* the task is suspended at: a task that never ran just ends; one blocked in
\* acquire() leaves the queue of the pool (pipeline.py:95); one inside the
\* `async with` block leaves it, which releases the slot (pipeline.py:95-99).
\* CancelledError is not an Exception, so the except branch
\* (pipeline.py:109) does not run and nothing is recorded.
Exec_Cancelled(t) ==
    /\ runPc = "cancelled"
    /\ pc[t] \in {"created", "waiting", "fetching", "hung"}
    /\ LET p == PoolOf(TaskChannel(t)) IN
       IF pc[t] \in {"fetching", "hung"}
       THEN /\ source_pools' = Release(source_pools, p)
            /\ pc' = [pc EXCEPT ![t] = "cancelled_in_fetch"]
            /\ UNCHANGED waiters
       ELSE /\ pc' = [pc EXCEPT ![t] = "cancelled"]
            /\ waiters' = [q \in PoolNames |->
                               SelectSeq(waiters[q], LAMBDA u : u # t)]
            /\ UNCHANGED source_pools
    /\ UNCHANGED <<now, cbVars, stVars, agVars, fcVars, cfgVars, breakers, metrics,
                   invocations, succeeded, fetched, loopVars, anVars, total_planned, srVars>>

\* what an awaited source.fetch() can do: return ok with evidences, return ok
\* with no evidences, return ok=False, or raise
FetchOutcomes == {"ok", "empty", "not_ok", "raised"}

\* the SourceResult a fetch() that returns hands back
\* (google_search.py:84-102)
FetchResult(t, outcome) ==
    IF outcome = "ok" THEN SourceResult(EvidencesOf(t), TRUE, NoError)
    ELSE IF outcome = "empty" THEN SourceResult(<<>>, TRUE, NoError)
    ELSE SourceResult(<<>>, FALSE, "Tavily search failed")

\* the SourceResult of the except branch (pipeline.py:113-120)
ErrorResult == SourceResult(<<>>, FALSE, "exc")

\* pipeline.py:101: the result counts as a success
IsSuccess(result) == result.ok /\ result.evidences # <<>>

\* fetch() returns or raises; the outcome is recorded, the slot released and
\* the task returns its SourceResult (pipeline.py:97-120)
Exec_FetchDone(t, outcome) ==
    /\ pc[t] = "fetching"
    /\ LET c == TaskChannel(t)
           p == PoolOf(c)
           result == IF outcome = "raised" THEN ErrorResult
                     ELSE FetchResult(t, outcome)
       IN
       /\ IF outcome # "raised" /\ IsSuccess(result)
          THEN \* pipeline.py:101-103
               /\ metrics' = record_query(metrics, 1)
               /\ breakers' = [breakers EXCEPT ![c] = record_success(@)]
               /\ succeeded' = succeeded \cup {c}
               /\ fetched' = fetched \cup {t}
          ELSE \* pipeline.py:104-106 and 109-111
               /\ metrics' = metrics_record_failure(metrics, 1)
               /\ breakers' = [breakers EXCEPT ![c] = record_failure(@, now)]
               /\ UNCHANGED <<succeeded, fetched>>
       /\ source_pools' = Release(source_pools, p)
       /\ pc' = [pc EXCEPT ![t] = "done"]
       /\ Run_Collect(t, result)
       /\ Stream_Collect(t, result)
    /\ UNCHANGED <<now, cbVars, stVars, agVars, fcVars, cfgVars, waiters, invocations, anVars,
                   total_planned>>

\* the awaited source.fetch() (pipeline.py:97-99) is a call that will neither
\* return nor raise; the await has no time limit
Exec_FetchHangs(t) ==
    /\ pc[t] = "fetching"
    /\ pc' = [pc EXCEPT ![t] = "hung"]
    /\ UNCHANGED <<now, cbVars, stVars, agVars, fcVars, cfgVars, source_pools, waiters, breakers, metrics,
                   invocations, succeeded, fetched, loopVars, anVars,
                   total_planned, srVars>>

(***************************************************************************)
(* ResearchPipeline.analyze_domain (pipeline.py:122-131) and the second    *)
(* loop of run() (pipeline.py:168-179).                                    *)
(***************************************************************************)
\* analyze_domain starts: redis clear_cache is sent to a thread (pipeline.py:123)
An_Start(d) ==
    /\ anPc[d] = "created"
    /\ anPc' = [anPc EXCEPT ![d] = "clear_cache"]
    /\ UNCHANGED <<now, cbVars, stVars, agVars, fcVars, cfgVars, taskVars, res, completed_count,
                   domain_to_evidence, runPc, results, anVars, total_planned, srVars>>

\* clear_cache returns or raises; on return the Analyzer is called with the
\* evidences the task was created with (pipeline.py:123-128)
An_CacheCleared(d, ok) ==
    /\ anPc[d] = "clear_cache"
    /\ IF ~ok
       THEN /\ anPc' = [anPc EXCEPT ![d] = "raised"]
            /\ anQueue' = Append(anQueue, d)
            /\ UNCHANGED <<analyzer_calls, anResult>>
       ELSE IF domain_to_evidence[d] # <<>>
       THEN \* pipeline.py:125-128
            /\ anPc' = [anPc EXCEPT ![d] = "analyze"]
            /\ analyzer_calls' = [analyzer_calls EXCEPT
                                     ![d] = Append(@, domain_to_evidence[d])]
            /\ UNCHANGED <<anQueue, anResult>>
       ELSE \* pipeline.py:130-131
            /\ anPc' = [anPc EXCEPT ![d] = "done"]
            /\ anResult' = [anResult EXCEPT ![d] = build_empty_result(d)]
            /\ anQueue' = Append(anQueue, d)
            /\ UNCHANGED analyzer_calls
    /\ UNCHANGED <<now, cbVars, stVars, agVars, fcVars, cfgVars, taskVars, res, completed_count,
                   domain_to_evidence, runPc, results, total_planned, srVars>>

\* analyze_company returns or raises; the task returns the result built from
\* what it returned (pipeline.py:126-129)
An_AnalyzeDone(d, ok, analysis_result) ==
    /\ anPc[d] = "analyze"
    /\ IF ok
       THEN /\ anPc' = [anPc EXCEPT ![d] = "done"]
            /\ anResult' = [anResult EXCEPT
                               ![d] = build_company_result(
                                          d, domain_to_evidence[d], analysis_result)]
       ELSE /\ anPc' = [anPc EXCEPT ![d] = "raised"]
            /\ UNCHANGED anResult
    /\ anQueue' = Append(anQueue, d)
    /\ UNCHANGED <<now, cbVars, stVars, agVars, fcVars, cfgVars, taskVars, res, completed_count,
                   domain_to_evidence, runPc, results, analyzer_calls,
                   total_planned, srVars>>

\* pipeline.py:169-179: one iteration of the as_completed loop over the
\* analysis tasks; `await coro` re-raises what the task raised
Run_CollectAnalysis ==
    /\ runPc = "analyze"
    /\ anQueue # <<>>
    /\ LET d == Head(anQueue) IN
       /\ anQueue' = Tail(anQueue)
       /\ Stream_CollectAnalysis(d)
       /\ IF anPc[d] = "raised"
          THEN /\ runPc' = "raised"
               /\ UNCHANGED results
          ELSE LET collected == Append(results, anResult[d]) IN
               IF Len(collected) = Cardinality(Domains \ MissingDomains(domain_to_evidence))
               THEN FinishRun(collected, domain_to_evidence)
               ELSE /\ results' = collected
                    /\ UNCHANGED runPc
    /\ UNCHANGED <<now, cbVars, stVars, agVars, fcVars, cfgVars, taskVars, res, completed_count,
                   domain_to_evidence, anPc, anResult, analyzer_calls,
                   total_planned>>

(***************************************************************************)
(* SSEFormatter (sse_formatter.py:15-90).  An SSE event is given by the    *)
(* lines format_event writes: the id line, the retry line, the event line  *)
(* and the data line (the dict, without its timestamp entry).              *)
(***************************************************************************)
\* an Optional[str] event_id that is None, and an id line that is not written
NoId == "None"

\* an Optional[int] retry that is None, and a retry line that is not written
NoRetry == 0

\* str() of a small natural number (stream_generator.py:68)
Digits == <<"0", "1", "2", "3", "4", "5", "6", "7", "8", "9">>

RECURSIVE str(_)
str(n) == IF n < 10 THEN Digits[n + 1] ELSE str(n \div 10) \o Digits[(n % 10) + 1]

\* format_event (sse_formatter.py:18-48): `if event_id:` and `if retry:`
\* leave out the line of a None, an empty string and a zero
format_event(event_type, data, event_id, retry) ==
    [id |-> IF event_id # NoId /\ event_id # "" THEN event_id ELSE NoId,
     retry |-> IF retry # NoRetry THEN retry ELSE NoRetry,
     event |-> event_type,
     data |-> data]

\* heartbeat (sse_formatter.py:50-56)
heartbeat == format_event("heartbeat", [message |-> "Connection alive"], NoId, NoRetry)

\* error (sse_formatter.py:58-65)
error_always_recoverable(error_msg, recoverable) ==
    format_event("error", [message |-> error_msg, recoverable |-> TRUE], NoId, NoRetry)

error(error_msg, recoverable) ==
    format_event("error", [message |-> error_msg, recoverable |-> recoverable],
                 NoId, NoRetry)

\* connection_established (sse_formatter.py:67-73)
connection_established_late ==
    format_event("connected", [message |-> "Research pipeline connected"],
                 "1", retry_interval)

connection_established ==
    format_event("connected", [message |-> "Research pipeline connected"],
                 "0", retry_interval)

\* connection_closed (sse_formatter.py:75-81)
connection_closed(reason) ==
    format_event("disconnected", [message |-> reason], NoId, NoRetry)

\* stream_complete (sse_formatter.py:83-90)
stream_complete(total_events) ==
    format_event("completed",
                 [message |-> "Research pipeline completed successfully",
                  total_events |-> total_events],
                 NoId, NoRetry)

(***************************************************************************)
(* The events ResearchPipeline.run_stream_optimized yields                 *)
(* (pipeline.py:221-366) in a run of total_planned fetch tasks that ends   *)
(* with `analysed` domains holding evidence.                               *)
(***************************************************************************)
\* the evidence_progress events of loop iterations completed..planned
\* (pipeline.py:257-276)
RECURSIVE ProgressEvents(_, _, _)
ProgressEvents(completed, planned, remaining) ==
    IF completed > planned THEN <<>>
    ELSE LET p == progress_percent(completed, planned) IN
         IF p \in remaining
         THEN <<RawEvent("evidence_progress", p)>>
                 \o ProgressEvents(completed + 1, planned, remaining \ {p})
         ELSE ProgressEvents(completed + 1, planned, remaining)

StreamEvents(planned, analysed) ==
    <<RawEvent("pipeline_start", 0)>>
      \o ProgressEvents(1, planned, progress_updates)
      \o <<RawEvent("evidence_complete", 0), RawEvent("analysis_start", 0)>>
      \o [i \in 1..analysed |-> RawEvent("domain_analyzed", i)]
      \o <<RawEvent("pipeline_complete", 0)>>

\* the events before which run_stream_optimized can raise: `await coro` of a
\* fetch task (pipeline.py:258) and `await task_coro` of an analysis task
\* (pipeline.py:326) re-raise what the task raised
RaisesBefore(raw_event) == raw_event.type \in {"evidence_progress", "domain_analyzed"}

(***************************************************************************)
(* generate_stream takes its pipeline as an argument                       *)
(* (stream_generator.py:31) and handles strings that orjson.loads rejects  *)
(* (stream_generator.py:71-72).  ResearchPipeline itself yields only       *)
(* orjson.dumps of a dict; the two strings below can come only from        *)
(* another object passed as `pipeline`.                                    *)
(***************************************************************************)
\* a string that is not JSON: orjson.loads raises JSONDecodeError
\* (stream_generator.py:61, 71)
MalformedEvent == [json |-> FALSE, object |-> FALSE, type |-> "unknown", progress |-> 0]

\* a JSON string that is not an object: event_data.get raises AttributeError
\* (stream_generator.py:62)
NonObjectEvent == [json |-> TRUE, object |-> FALSE, type |-> "unknown", progress |-> 0]

\* the pipelines generate_stream is run over: a ResearchPipeline, or one
\* that yields one of the two strings above in the place of an event
PipelineScripts ==
    LET real == { StreamEvents(planned, analysed) :
                      planned \in 1..MaxStreamTasks, analysed \in 0..MaxStreamDomains }
    IN  real \cup UNION { { [s EXCEPT ![i] = bad] : i \in 1..(Len(s) - 1) } :
                              s \in real, bad \in {MalformedEvent, NonObjectEvent} }

(***************************************************************************)
(* ResearchStreamGenerator.generate_stream (stream_generator.py:31-90),    *)
(* cut at its suspension points: every yield, and the pull of the next     *)
(* pipeline event.                                                         *)
(***************************************************************************)
\* ResearchStreamGenerator.__init__ and the locals of generate_stream up to
\* the first yield (stream_generator.py:22-42), over one pipeline
ST_Init ==
    /\ heartbeat_interval \in 1..MaxHeartbeat
    /\ raw_events \in PipelineScripts
    /\ raw_pos = 0
    /\ stPc = "start"
    /\ event_count = 0
    /\ last_heartbeat = 0
    /\ current_time = 0
    /\ emitted = <<>>
    /\ yielded_at = 0

\* stream_generator.py:60-62: orjson.loads and event_data.get raise something
\* that the inner handler (stream_generator.py:71) does not catch
FormatRaises(raw_event) == raw_event.json /\ ~raw_event.object

\* stream_generator.py:61-72: the pulled event is parsed and sent on, or an
\* error event is sent if it does not parse
FormatRaw(raw_event, count) ==
    IF raw_event.json
    THEN format_event(raw_event.type,
                      [type |-> raw_event.type, progress |-> raw_event.progress],
                      str(count), NoRetry)
    ELSE error("Failed to parse event", TRUE)

\* stream_generator.py:60-72, 82-84: the event is yielded; if formatting it
\* raised, the outer handler yields its error event
YieldFormatted(raw_event, count) ==
    IF FormatRaises(raw_event)
    THEN /\ emitted' = Append(emitted, error("Pipeline error", FALSE))
         /\ stPc' = "error"
    ELSE /\ emitted' = Append(emitted, FormatRaw(raw_event, count))
         /\ stPc' = "event"

\* stream_generator.py:46: the connection event is yielded
St_Connect ==
    /\ stPc = "start"
    /\ emitted' = Append(emitted, connection_established)
    /\ yielded_at' = now
    /\ stPc' = "connected"
    /\ UNCHANGED <<now, cbVars, plVars, agVars, fcVars, heartbeat_interval, raw_events, raw_pos,
                   event_count, last_heartbeat, current_time>>

\* stream_generator.py:50-72: the pipeline yields its next event; a heartbeat
\* is yielded first if the last one is too old, else the event is sent on
St_Pull ==
    /\ stPc = "pull"
    /\ raw_pos < Len(raw_events)
    /\ raw_pos' = raw_pos + 1
    /\ event_count' = event_count + 1
    /\ current_time' = now
    /\ yielded_at' = now
    /\ IF now - last_heartbeat > heartbeat_interval
       THEN /\ emitted' = Append(emitted, heartbeat)
            /\ stPc' = "heartbeat"
       ELSE YieldFormatted(raw_events[raw_pos + 1], event_count + 1)
    /\ UNCHANGED <<now, cbVars, plVars, agVars, fcVars, heartbeat_interval, raw_events,
                   last_heartbeat>>

\* stream_generator.py:50, 75: the pipeline is exhausted and the completion
\* event is yielded
St_PipelineEnds ==
    /\ stPc = "pull"
    /\ raw_pos = Len(raw_events)
    /\ emitted' = Append(emitted, stream_complete(event_count))
    /\ yielded_at' = now
    /\ stPc' = "completed"
    /\ UNCHANGED <<now, cbVars, plVars, agVars, fcVars, heartbeat_interval, raw_events, raw_pos,
                   event_count, last_heartbeat, current_time>>

\* stream_generator.py:50, 82-84: the pipeline raises and the error event is
\* yielded
St_PipelineRaises ==
    /\ stPc = "pull"
    /\ raw_pos < Len(raw_events)
    /\ RaisesBefore(raw_events[raw_pos + 1])
    /\ emitted' = Append(emitted, error("Pipeline error", FALSE))
    /\ yielded_at' = now
    /\ stPc' = "error"
    /\ UNCHANGED <<now, cbVars, plVars, agVars, fcVars, heartbeat_interval, raw_events, raw_pos,
                   event_count, last_heartbeat, current_time>>

\* stream_generator.py:50, 77-79: the task consuming the stream is cancelled
\* while the generator waits for the pipeline; the notice is yielded
St_Cancel_swallowed ==
    /\ stPc = "pull"
    /\ emitted' = Append(emitted, connection_closed("Client disconnected"))
    /\ yielded_at' = now
    /\ stPc' = "event"
    /\ UNCHANGED <<now, cbVars, plVars, agVars, fcVars, heartbeat_interval, raw_events, raw_pos,
                   event_count, last_heartbeat, current_time>>

St_Cancel ==
    /\ stPc = "pull"
    /\ emitted' = Append(emitted, connection_closed("Client disconnected"))
    /\ yielded_at' = now
    /\ stPc' = "disconnected"
    /\ UNCHANGED <<now, cbVars, plVars, agVars, fcVars, heartbeat_interval, raw_events, raw_pos,
                   event_count, last_heartbeat, current_time>>

\* the positions at which generate_stream is suspended in a yield
Yields == {"connected", "heartbeat", "event", "completed", "error",
           "stream_error", "disconnected"}

\* the consumer stops iterating while the generator is suspended in a yield
\* and the generator is closed: GeneratorExit is raised at the yield, and
\* neither handler (stream_generator.py:77, 82) catches it
St_Close ==
    /\ stPc \in Yields
    /\ stPc' = "closed"
    /\ UNCHANGED <<now, cbVars, plVars, agVars, fcVars, heartbeat_interval, raw_events, raw_pos,
                   event_count, last_heartbeat, current_time, emitted, yielded_at>>

\* the consumer asks for the next event and the generator goes on from the
\* yield it stopped at
St_Resume ==
    /\ stPc \in Yields
    /\ CASE stPc = "connected" ->
              \* stream_generator.py:47
              /\ event_count' = event_count + 1
              /\ stPc' = "pull"
              /\ UNCHANGED <<emitted, last_heartbeat, yielded_at>>
         [] stPc = "heartbeat" ->
              \* stream_generator.py:57-72
              /\ last_heartbeat' = current_time
              /\ YieldFormatted(raw_events[raw_pos], event_count)
              /\ yielded_at' = now
              /\ UNCHANGED event_count
         [] stPc = "event" ->
              /\ stPc' = "pull"
              /\ UNCHANGED <<emitted, event_count, last_heartbeat, yielded_at>>
         [] stPc = "completed" ->
              \* the generator returns
              /\ stPc' = "done"
              /\ UNCHANGED <<emitted, event_count, last_heartbeat, yielded_at>>
         [] stPc = "error" ->
              \* stream_generator.py:85-89
              /\ emitted' = Append(emitted,
                                   format_event("stream_error",
                                                [message |-> "Stream ended due to error"],
                                                NoId, NoRetry))
              /\ yielded_at' = now
              /\ stPc' = "stream_error"
              /\ UNCHANGED <<event_count, last_heartbeat>>
         [] stPc = "stream_error" ->
              \* the generator returns
              /\ stPc' = "done"
              /\ UNCHANGED <<emitted, event_count, last_heartbeat, yielded_at>>
         [] stPc = "disconnected" ->
              \* stream_generator.py:80: raise
              /\ stPc' = "cancelled"
              /\ UNCHANGED <<emitted, event_count, last_heartbeat, yielded_at>>
    /\ UNCHANGED <<now, cbVars, plVars, agVars, fcVars, heartbeat_interval, raw_events, raw_pos,
                   current_time>>

(***************************************************************************)
(* StreamingAggregator (streaming_aggregator.py:35-277).  A string that    *)
(* is normalised or concatenated is a tuple of one-character strings.      *)
(* Each coroutine method runs its body under `async with self._lock`; no   *)
(* body awaits anything, so the lock is never held across a suspension     *)
(* point, acquire() never waits, and each call is one step.  The time      *)
(* stamp last_updated and the completion percentage of an update are left  *)
(* out.                                                                    *)
(***************************************************************************)
\* Evidence (response.py:6-10): the four fields of the pydantic model
Evidence(url, title, snippet, name) ==
    [url |-> url, title |-> title, snippet |-> snippet, source_name |-> name]

\* attribute lookup on an object: `evidence.score` (streaming_aggregator.py:184)
\* raises AttributeError for an attribute the object does not have
HasAttr(object, attribute) == attribute \in DOMAIN object

\* str.isspace for the characters used
Whitespace == {" ", "\t"}

\* str.lower, character by character
LowerChar(c) == IF c = "A" THEN "a" ELSE IF c = "B" THEN "b" ELSE c

RECURSIVE LStrip(_)
LStrip(text) ==
    IF text # <<>> /\ Head(text) \in Whitespace THEN LStrip(Tail(text)) ELSE text

RECURSIVE RStrip(_)
RStrip(text) ==
    IF text # <<>> /\ text[Len(text)] \in Whitespace
    THEN RStrip(SubSeq(text, 1, Len(text) - 1))
    ELSE text

\* re.sub(r"\s+", " ", text): every run of whitespace becomes one space
RECURSIVE CollapseWhitespace(_)
CollapseWhitespace(text) ==
    IF text = <<>> THEN <<>>
    ELSE IF Head(text) \in Whitespace
         THEN IF Len(text) >= 2 /\ text[2] \in Whitespace
              THEN CollapseWhitespace(Tail(text))
              ELSE <<" ">> \o CollapseWhitespace(Tail(text))
         ELSE <<Head(text)>> \o CollapseWhitespace(Tail(text))

\* _normalize_text (streaming_aggregator.py:87-89)
normalize_text(text) ==
    CollapseWhitespace([i \in DOMAIN RStrip(LStrip(text)) |->
                            LowerChar(RStrip(LStrip(text))[i])])

\* _evidence_key (streaming_aggregator.py:91-95): the digest of
\* f"{url}|{normalized title}", taken to be as distinct as the text it hashes
evidence_key(evidence) == evidence.url \o <<"|">> \o normalize_text(evidence.title)

\* self.tech_keywords, in sorted order; the two of _get_default_keywords
\* (streaming_aggregator.py:68-74) that the snippets used here hold
tech_keywords == <<"docker", "kubernetes">>

\* _extract_technologies (streaming_aggregator.py:97-108) over titles that
\* hold no keyword and snippets that are one keyword or none
extract_technologies(evidences) ==
    { tech_keywords[k] : k \in { k \in DOMAIN tech_keywords :
          \E i \in DOMAIN evidences : evidences[i].snippet = tech_keywords[k] } }

Min(a, b) == IF a < b THEN a ELSE b

\* _compute_confidence (streaming_aggregator.py:110-131) followed by the
\* round(confidence, 2) of _build_result, in hundredths: the three weighted
\* factors are taken in units of 1/3000 and rounded to the nearest 30
compute_confidence(unique_sources, total_evidence, tech_count) ==
    (Min(unique_sources, 3) * 400 + Min(total_evidence, 10) * 90
       + Min(tech_count, 5) * 180 + 15) \div 30

\* StreamingState (streaming_aggregator.py:13-21); evidences_by_key is the
\* dict in insertion order, a sequence of key/value entries
StreamingState(domain) ==
    [domain |-> domain, evidences_by_key |-> <<>>, source_names |-> {},
     technologies |-> {}, evidence_count |-> 0]

\* list(state.evidences_by_key.values())
Values(dict) == [i \in DOMAIN dict |-> dict[i].value]

\* sorted(list(state.technologies))
SortedTechnologies(technologies) ==
    SelectSeq(tech_keywords, LAMBDA k : k \in technologies)

\* _build_result (streaming_aggregator.py:133-164); Findings ignores the
\* ai_fraud_detection argument, which is not a field of the model
build_result_counting_items(state) ==
    CompanyResearchResult(
        state.domain,
        compute_confidence(Cardinality(state.source_names),
                           Len(state.evidences_by_key),
                           Cardinality(state.technologies)),
        Len(state.evidences_by_key),
        Findings(SortedTechnologies(state.technologies),
                 Values(state.evidences_by_key),
                 Cardinality(state.technologies)))

build_result(state) ==
    CompanyResearchResult(
        state.domain,
        compute_confidence(Cardinality(state.source_names),
                           Len(state.evidences_by_key),
                           Cardinality(state.technologies)),
        Cardinality(state.source_names),
        Findings(SortedTechnologies(state.technologies),
                 Values(state.evidences_by_key),
                 Cardinality(state.technologies)))

\* StreamingAggregator.__init__ (streaming_aggregator.py:57-64);
\* domain_states is the dict in insertion order, a sequence of states
AG_Init ==
    /\ domain_states = <<>>
    /\ completed_domains = {}
    /\ total_received_results = 0
    /\ agRet = [op |-> "init", raised |-> FALSE]

\* `domain in self.domain_states` and self.domain_states[domain]
StateIndex(states, domain) ==
    IF \E i \in DOMAIN states : states[i].domain = domain
    THEN CHOOSE i \in DOMAIN states : states[i].domain = domain
    ELSE 0

\* `evidence_key in state.evidences_by_key` and the entry's position
KeyIndex(state, key) ==
    IF \E i \in DOMAIN state.evidences_by_key : state.evidences_by_key[i].key = key
    THEN CHOOSE i \in DOMAIN state.evidences_by_key : state.evidences_by_key[i].key = key
    ELSE 0

\* the evidences and the domains the aggregator is called with
AgEvidences ==
    { Evidence(<<"u", "1">>, <<"A">>, "", "google_search"),
      Evidence(<<"u", "1">>, <<" ", "a", " ">>, "docker", "news_search"),
      Evidence(<<"u", "2">>, <<"A", " ", "\t", "b">>, "", "google_search"),
      Evidence(<<"U", "1">>, <<"A">>, "kubernetes", "news_search") }

AgDomains == {"d1", "d2"}

\* add_evidence (streaming_aggregator.py:166-216)
Ag_AddEvidence(domain, evidence) ==
    /\ total_received_results < MaxAggResults
    /\ LET states == IF StateIndex(domain_states, domain) = 0
                     THEN Append(domain_states, StreamingState(domain))
                     ELSE domain_states
           s == StateIndex(states, domain)
           state == states[s]
           key == evidence_key(evidence)
           k == KeyIndex(state, key)
           updated ==
               IF k # 0
               THEN IF evidence.score > state.evidences_by_key[k].value.score
                    THEN [state EXCEPT !.evidences_by_key[k].value = evidence]
                    ELSE state
               ELSE [state EXCEPT
                       !.evidences_by_key = Append(@, [key |-> key, value |-> evidence]),
                       !.evidence_count = @ + 1,
                       !.source_names = @ \cup {evidence.source_name},
                       !.technologies = @ \cup extract_technologies(<<evidence>>)]
       IN
       IF k # 0 /\ ~(HasAttr(evidence, "score")
                       /\ HasAttr(state.evidences_by_key[k].value, "score"))
       THEN \* streaming_aggregator.py:184 raises AttributeError
            /\ domain_states' = states
            /\ agRet' = [op |-> "add_evidence", raised |-> TRUE,
                         domain |-> domain, new_evidence |-> evidence]
            /\ UNCHANGED total_received_results
       ELSE /\ domain_states' = [states EXCEPT ![s] = updated]
            /\ total_received_results' = total_received_results + 1
            /\ agRet' = [op |-> "add_evidence", raised |-> FALSE,
                         domain |-> domain, new_evidence |-> evidence,
                         current_result |-> build_result(updated),
                         total_evidence |-> total_received_results + 1]
    /\ UNCHANGED <<now, cbVars, plVars, stVars, fcVars, completed_domains>>

\* mark_domain_complete (streaming_aggregator.py:218-248)
Ag_MarkDomainComplete(domain) ==
    /\ completed_domains' = completed_domains \cup {domain}
    /\ agRet' = [op |-> "mark_domain_complete", raised |-> FALSE,
                 domain |-> domain,
                 current_result |->
                     IF StateIndex(domain_states, domain) # 0
                     THEN build_result(domain_states[StateIndex(domain_states, domain)])
                     ELSE CompanyResearchResult(domain, 0, 0, Findings(<<>>, <<>>, 0)),
                 total_evidence |-> total_received_results]
    /\ UNCHANGED <<now, cbVars, plVars, stVars, fcVars, domain_states,
                   total_received_results>>

\* get_current_results (streaming_aggregator.py:250-259)
Ag_GetCurrentResults_forgetful ==
    /\ agRet' = [op |-> "get_current_results", raised |-> FALSE,
                 results |-> [i \in DOMAIN domain_states |->
                                  build_result(domain_states[i])]]
    /\ domain_states' = [i \in DOMAIN domain_states |->
                             StreamingState(domain_states[i].domain)]
    /\ UNCHANGED <<now, cbVars, plVars, stVars, fcVars, completed_domains,
                   total_received_results>>

Ag_GetCurrentResults ==
    /\ agRet' = [op |-> "get_current_results", raised |-> FALSE,
                 results |-> [i \in DOMAIN domain_states |->
                                  build_result(domain_states[i])]]
    /\ UNCHANGED <<now, cbVars, plVars, stVars, fcVars, domain_states,
                   completed_domains, total_received_results>>

\* is_complete (streaming_aggregator.py:261-265)
Ag_IsComplete ==
    /\ agRet' = [op |-> "is_complete", raised |-> FALSE,
                 value |-> Cardinality(completed_domains) >= Len(domain_states)]
    /\ UNCHANGED <<now, cbVars, plVars, stVars, fcVars, domain_states,
                   completed_domains, total_received_results>>

(***************************************************************************)
(* The fetch() of the sources and the Redis cache behind it                *)
(* (google_search.py:45-102, news_search.py:84-118, redis_cache.py:14-29), *)
(* for the fetch tasks of one domain.  fetch() is cut at its suspension    *)
(* points: the awaited search call and the two awaited asyncio.to_thread   *)
(* calls per search result.                                                *)
(***************************************************************************)
\* the fetch tasks of the domain, one per query, and their channel_name
FetchTasks == {1, 2}

channel_name(f) == IF f = 1 THEN "google_search" ELSE "news_search"

\* what the search API can return for a query: result entries with their
\* url, title and content
SearchHits ==
    { [url |-> "u1", title |-> "t1", content |-> "s1"],
      [url |-> "u2", title |-> "t2", content |-> "s2"],
      [url |-> "u3", title |-> "t1", content |-> "s3"] }

Responses ==
    UNION { [1..n -> SearchHits] : n \in 0..MaxResults }

\* google_search.py:63-68: the Evidence built from one result entry
EvidenceOf(f, hit) == Evidence(hit.url, hit.title, hit.content, channel_name(f))

\* RedisCache.is_evidence_cached (redis_cache.py:14-24) on the three sets of
\* the domain
is_evidence_cached(sets, evidence) ==
    \/ evidence.url \in sets.urls
    \/ evidence.title \in sets.titles
    \/ evidence.snippet \in sets.snippets

\* RedisCache.add_evidence_to_cache (redis_cache.py:26-29)
add_evidence_to_cache(sets, evidence) ==
    [urls |-> sets.urls \cup {evidence.url},
     titles |-> sets.titles \cup {evidence.title},
     snippets |-> sets.snippets \cup {evidence.snippet}]

\* the fetch tasks are created with the search responses they will get; the
\* cache of the domain is empty
FC_Init ==
    /\ response \in [FetchTasks -> Responses]
    /\ fetchPc = [f \in FetchTasks |-> [at |-> "search", i |-> 0, cache_raised |-> FALSE]]
    /\ fetch_evidences = [f \in FetchTasks |-> <<>>]
    /\ redis_client = [urls |-> {}, titles |-> {}, snippets |-> {}]
    /\ domain_evidence = <<>>
    /\ fetchRunPc = "collect"

\* pipeline.py:156-177: a fetch task of the domain has finished and run()
\* takes its result (the as_completed loop takes the tasks in the order they
\* finish); after the last one, analyze_domain is started for the domain if
\* it has evidence, else run() returns with the empty result
Collect(f, evidences) ==
    /\ domain_evidence' = domain_evidence \o evidences
    /\ IF \A g \in FetchTasks \ {f} : fetchPc[g].at \in {"returned", "failed"}
       THEN fetchRunPc' = IF domain_evidence \o evidences # <<>>
                          THEN "analyze" ELSE "returned"
       ELSE UNCHANGED fetchRunPc

\* google_search.py:62, 85-91: the loop of fetch() goes to result entry i, or
\* fetch() returns its evidences with ok=True
GoTo(f, i, evidences) ==
    /\ fetch_evidences' = [fetch_evidences EXCEPT ![f] = evidences]
    /\ IF i <= Len(response[f])
       THEN /\ fetchPc' = [fetchPc EXCEPT ![f].at = "check", ![f].i = i]
            /\ UNCHANGED <<domain_evidence, fetchRunPc>>
       ELSE /\ fetchPc' = [fetchPc EXCEPT ![f].at = "returned", ![f].i = i]
            /\ Collect(f, evidences)

\* google_search.py:93-102: something raised inside the try block and fetch()
\* returns ok=False with no evidences
Fail(f, in_cache) ==
    /\ fetch_evidences' = [fetch_evidences EXCEPT ![f] = <<>>]
    /\ fetchPc' = [fetchPc EXCEPT ![f].at = "failed", ![f].cache_raised = in_cache]
    /\ Collect(f, <<>>)

\* google_search.py:51-62: the search call returns or raises
Fc_Search(f, ok) ==
    /\ fetchPc[f].at = "search"
    /\ IF ok THEN GoTo(f, 1, fetch_evidences[f]) ELSE Fail(f, FALSE)
    /\ UNCHANGED <<now, cbVars, plVars, stVars, agVars, response, redis_client>>

\* google_search.py:71-75: the thread running is_evidence_cached returns, or
\* raises what the Redis client raised
Fc_Check(f, ok) ==
    /\ fetchPc[f].at = "check"
    /\ IF ~ok
       THEN Fail(f, TRUE)
       ELSE IF is_evidence_cached(redis_client, EvidenceOf(f, response[f][fetchPc[f].i]))
       THEN GoTo(f, fetchPc[f].i + 1, fetch_evidences[f])
       ELSE /\ fetchPc' = [fetchPc EXCEPT ![f].at = "add"]
            /\ UNCHANGED <<fetch_evidences, domain_evidence, fetchRunPc>>
    /\ UNCHANGED <<now, cbVars, plVars, stVars, agVars, response, redis_client>>

\* google_search.py:78-82: the thread running add_evidence_to_cache returns
\* and the evidence is appended, or its first Redis command raises
Fc_Add(f, ok) ==
    /\ fetchPc[f].at = "add"
    /\ IF ok
       THEN LET evidence == EvidenceOf(f, response[f][fetchPc[f].i]) IN
            /\ redis_client' = add_evidence_to_cache(redis_client, evidence)
            /\ GoTo(f, fetchPc[f].i + 1, Append(fetch_evidences[f], evidence))
       ELSE /\ Fail(f, TRUE)
            /\ UNCHANGED redis_client
    /\ UNCHANGED <<now, cbVars, plVars, stVars, agVars, response>>

\* RedisCache.clear_cache (redis_cache.py:31-34)
clear_cache(sets) == [urls |-> {}, titles |-> {}, snippets |-> {}]

\* pipeline.py:122-131, 168-177: analyze_domain clears the domain's sets and
\* analyses; run() returns, or raises what clear_cache raised
Fc_AnalyzeDomain(ok) ==
    /\ fetchRunPc = "analyze"
    /\ IF ok
       THEN /\ redis_client' = clear_cache(redis_client)
            /\ fetchRunPc' = "returned"
       ELSE /\ fetchRunPc' = "raised"
            /\ UNCHANGED redis_client
    /\ UNCHANGED <<now, cbVars, plVars, stVars, agVars, response, fetchPc,
                   fetch_evidences, domain_evidence>>

(***************************************************************************)
(* The specifications.                                                     *)
(***************************************************************************)
\* the values the pipeline's variables hold while the breaker is driven alone
PL_Idle ==
    /\ max_parallel_searches = 0
    /\ strategies = <<>>
    /\ company_domains = <<>>
    /\ source_pools = [p \in PoolNames |-> 0]
    /\ waiters = [p \in PoolNames |-> <<>>]
    /\ breakers = [c \in Sources |-> CircuitBreaker(1, 0)]
    /\ metrics = RunMetrics
    /\ pc = <<>>
    /\ res = [domain |-> 0, result |-> SourceResult(<<>>, FALSE, NoError)]
    /\ invocations = [c \in Sources |-> 0]
    /\ runPc = "idle"
    /\ completed_count = 0
    /\ domain_to_evidence = <<>>
    /\ anPc = <<>>
    /\ anQueue = <<>>
    /\ anResult = <<>>
    /\ results = <<>>
    /\ total_planned = 0
    /\ succeeded = {}
    /\ fetched = {}
    /\ analyzer_calls = <<>>
    /\ streamPc = "idle"
    /\ stream_completed_count = 0
    /\ stream_domain_to_evidence = <<>>
    /\ stream_progress_updates = progress_updates
    /\ stream_results = <<>>
    /\ stream_events = <<>>

\* the values the stream generator's variables hold when no stream is made
ST_Idle ==
    /\ heartbeat_interval = 0
    /\ raw_events = <<>>
    /\ raw_pos = 0
    /\ stPc = "idle"
    /\ event_count = 0
    /\ last_heartbeat = 0
    /\ current_time = 0
    /\ emitted = <<>>
    /\ yielded_at = 0

\* the values the lone breaker's variables hold during a pipeline run
CB_Idle ==
    /\ cb = CircuitBreaker(1, 0)
    /\ lastOp = "none"
    /\ lastRet = TRUE
    /\ prev = CLOSED
    /\ consec = 0
    /\ openedSince = None
    /\ probes = 0

\* the values the aggregator's variables hold when no aggregator is made
AG_Idle ==
    /\ domain_states = <<>>
    /\ completed_domains = {}
    /\ total_received_results = 0
    /\ agRet = [op |-> "none", raised |-> FALSE]

\* the values the fetch tasks' variables hold when none is modelled
FC_Idle ==
    /\ response = <<>>
    /\ fetchPc = <<>>
    /\ fetch_evidences = <<>>
    /\ redis_client = [urls |-> {}, titles |-> {}, snippets |-> {}]
    /\ domain_evidence = <<>>
    /\ fetchRunPc = "idle"

InitCB == now = 0 /\ CB_Init /\ PL_Idle /\ ST_Idle /\ AG_Idle /\ FC_Idle

NextCB ==
    \/ CB_AllowRequest /\ UNCHANGED <<plVars, stVars, agVars, fcVars>>
    \/ CB_RecordSuccess /\ UNCHANGED <<plVars, stVars, agVars, fcVars>>
    \/ CB_RecordFailure /\ UNCHANGED <<plVars, stVars, agVars, fcVars>>
    \/ Tick(MaxClock) /\ UNCHANGED <<cbVars, plVars, stVars, agVars, fcVars>>

SpecCB == InitCB /\ [][NextCB]_vars

Init == now = 0 /\ CB_Idle /\ PL_Init /\ ST_Idle /\ AG_Idle /\ FC_Idle

Next ==
    \/ Run_CreateTasks
    \/ \E t \in Tasks : Exec_Start(t)
    \/ \E t \in Tasks : Exec_Acquire(t)
    \/ \E t \in Tasks, outcome \in FetchOutcomes : Exec_FetchDone(t, outcome)
    \/ \E t \in Tasks : Exec_FetchHangs(t)
    \/ \E t \in Tasks : Exec_Cancelled(t)
    \/ \E d \in Domains : An_Start(d)
    \/ \E d \in Domains, ok \in BOOLEAN : An_CacheCleared(d, ok)
    \/ \E d \in Domains, ok \in BOOLEAN, analysis_result \in AnalysisResults :
           An_AnalyzeDone(d, ok, analysis_result)
    \/ Run_CollectAnalysis
    \/ Run_Cancel
    \/ Tick(MaxRunClock) /\ UNCHANGED <<cbVars, plVars, stVars, agVars, fcVars>>

Spec == Init /\ [][Next]_vars

InitStream == now = 0 /\ CB_Idle /\ PL_Idle /\ ST_Init /\ AG_Idle /\ FC_Idle

NextStream ==
    \/ St_Connect
    \/ St_Pull
    \/ St_PipelineEnds
    \/ St_PipelineRaises
    \/ St_Cancel
    \/ St_Close
    \/ St_Resume
    \/ Tick(MaxStreamClock) /\ UNCHANGED <<cbVars, plVars, stVars, agVars, fcVars>>

SpecStream == InitStream /\ [][NextStream]_vars

InitAgg == now = 0 /\ CB_Idle /\ PL_Idle /\ ST_Idle /\ AG_Init /\ FC_Idle

NextAgg ==
    \/ \E domain \in AgDomains, evidence \in AgEvidences : Ag_AddEvidence(domain, evidence)
    \/ \E domain \in AgDomains : Ag_MarkDomainComplete(domain)
    \/ Ag_GetCurrentResults
    \/ Ag_IsComplete

SpecAgg == InitAgg /\ [][NextAgg]_vars

InitFetch == now = 0 /\ CB_Idle /\ PL_Idle /\ ST_Idle /\ AG_Idle /\ FC_Init

NextFetch ==
    \/ \E f \in FetchTasks, ok \in BOOLEAN : Fc_Search(f, ok)
    \/ \E f \in FetchTasks, ok \in BOOLEAN : Fc_Check(f, ok)
    \/ \E f \in FetchTasks, ok \in BOOLEAN : Fc_Add(f, ok)
    \/ \E ok \in BOOLEAN : Fc_AnalyzeDomain(ok)

SpecFetch == InitFetch /\ [][NextFetch]_vars

(***************************************************************************)
(* Properties of the CircuitBreaker, checked under SpecCB.                 *)
(***************************************************************************)
\* the breaker is Open and its reset timeout has not elapsed since the stamp
OpenAndEarly(b, t) ==
    /\ b.state = OPEN
    /\ b.opened_at # None
    /\ (t - b.opened_at) < b.reset_timeout_seconds

\* C2: from a Closed breaker with zero failures, the failure_threshold-th
\* consecutive record_failure() (no record_success() in between) leaves the
\* breaker Open; while less than reset_timeout_seconds has elapsed since it
\* opened every allow_request() returns false and leaves it Open; and with
\* fewer than failure_threshold consecutive failures allow_request() returns
\* true.
C2_OpensAtThreshold ==
    /\ [](lastOp = "record_failure" /\ consec = cb.failure_threshold
            => cb.state = OPEN /\ openedSince = cb.opened_at)
    /\ [][(CB_AllowRequest /\ cb.state = OPEN
             /\ (now - openedSince) < cb.reset_timeout_seconds)
            => (~lastRet' /\ cb'.state = OPEN)]_vars
    /\ [](lastOp = "allow_request" /\ consec < cb.failure_threshold => lastRet)

\* C2 witness: a breaker with threshold >= 2 that opened after exactly
\* failure_threshold failures has just refused a request, some time after
\* opening and before its reset timeout.
C2_Witness ==
    /\ lastOp = "allow_request"
    /\ ~lastRet
    /\ cb.state = OPEN
    /\ cb.failure_threshold >= 2
    /\ consec = cb.failure_threshold
    /\ now > openedSince

C4_HalfOpenFailureReopens ==
    [][(CB_RecordFailure /\ cb.state = HALF_OPEN)
         => (cb'.state = OPEN /\ cb'.opened_at = now)]_vars

\* C4 witness: a breaker with threshold >= 2 was re-opened by a failure while
\* HalfOpen, later than it first opened.
C4_Witness ==
    /\ lastOp = "record_failure"
    /\ prev = HALF_OPEN
    /\ cb.state = OPEN
    /\ cb.opened_at = now
    /\ now >= 1
    /\ cb.failure_threshold >= 2

\* C5: record_success() in any state leaves the breaker Closed with failure
\* counter 0 and no open timestamp; and after it the breaker stays Closed
\* until failure_threshold new failures have been recorded.
C5_SuccessResets ==
    /\ [][CB_RecordSuccess
            => (cb'.state = CLOSED /\ cb'.failure_count = 0 /\ cb'.opened_at = None)]_vars
    /\ [](consec < cb.failure_threshold => cb.state = CLOSED)

\* C5 witness: a record_success() was made while HalfOpen and left the
\* breaker Closed with no failures counted.
C5_Witness ==
    /\ lastOp = "record_success"
    /\ prev = HALF_OPEN
    /\ cb.state = CLOSED
    /\ cb.failure_count = 0

\* C6 (as claimed): the open time is the time the breaker went Open, so an
\* allow_request() on an Open breaker admits a probe as soon as
\* reset_timeout_seconds have elapsed since it opened, whatever
\* record_failure() calls arrived while it was Open.
C6_ProbeMeasuredFromOpening ==
    [][(CB_AllowRequest /\ cb.state = OPEN
          /\ (now - openedSince) >= cb.reset_timeout_seconds) => lastRet']_vars

(***************************************************************************)
(* Properties of a pipeline run, checked under Spec.                       *)
(***************************************************************************)
\* C1: for each dependency, the source.fetch() calls that have started and
\* not yet returned or raised never outnumber the pool's capacity.
C1_InFlightBounded ==
    \A c \in Sources : Cardinality(InFlight(c)) <= max_parallel_searches

\* C1 witness: a pool of capacity >= 1 is full while further tasks of the same
\* dependency wait for a slot.
C1_Witness ==
    \E c \in Sources :
        /\ max_parallel_searches >= 1
        /\ Cardinality(InFlight(c)) = max_parallel_searches
        /\ Len(waiters[PoolOf(c)]) >= 2

\* task t gets as far as its breaker: its query is built and its channel has
\* a registered Source
ReachesBreaker(t) ==
    /\ ~build_query(TaskStrategy(t), TaskDomain(t)).raised
    /\ TaskChannel(t) \in Sources

\* C7: a task whose breaker answers allow_request() = false returns the
\* "circuit open" SourceResult at once: the Source is not invoked, no pool
\* slot is taken, and neither RunMetrics nor any breaker is changed.
C7_CircuitOpenShortCircuits ==
    [][\A t \in Tasks :
          (/\ Exec_Start(t)
           /\ ReachesBreaker(t)
           /\ ~allow_request_ret(breakers[TaskChannel(t)], now))
          => (/\ runPc = "collect"
                   => res' = [domain |-> TaskDomain(t),
                              result |-> SourceResult(<<>>, FALSE, "circuit open")]
              /\ pc'[t] = "done"
              /\ invocations' = invocations
              /\ source_pools' = source_pools
              /\ waiters' = waiters
              /\ metrics' = metrics
              /\ breakers' = breakers)]_vars

\* C7 witness: the result run() collected last is a "circuit open" one.
C7_Witness ==
    /\ res.result.error = "circuit open"
    /\ \E c \in Sources : breakers[c].state = OPEN

\* C8 (as claimed): while a dependency's Source has never succeeded in the
\* run, no Source invocation for it begins once its breaker has opened.
C8_NoFetchOnceOpened ==
    [][\A c \in Sources :
          (c \notin succeeded /\ breakers[c].state # CLOSED)
          => invocations'[c] = invocations[c]]_vars

\* C8 (amended): a task that reaches the breaker check while the breaker is
\* Open and its reset timeout has not elapsed yields "circuit open" without
\* invoking the Source; a Source invocation that begins while the breaker is
\* Open belongs to a task admitted earlier that was waiting for a pool slot,
\* or to a probe admitted after the reset timeout; and a task whose own
\* breaker is Closed is admitted whatever the other breaker's state.
C8_OpenBreakerStopsNewTasks ==
    [][/\ \A t \in Tasks :
            LET c == TaskChannel(t) IN
            /\ (Exec_Start(t) /\ ReachesBreaker(t) /\ OpenAndEarly(breakers[c], now))
                 => (/\ runPc = "collect" => res'.result.error = "circuit open"
                     /\ pc'[t] = "done"
                     /\ invocations' = invocations)
            /\ (Exec_Start(t) /\ ReachesBreaker(t) /\ breakers[c].state = CLOSED)
                 => pc'[t] \in {"waiting", "fetching"}
       /\ \A c \in Sources :
            (invocations'[c] # invocations[c] /\ breakers[c].state = OPEN)
            => \/ \E t \in Tasks : Exec_Acquire(t)
               \/ ~OpenAndEarly(breakers[c], now)]_vars

\* C8 witness: one dependency has only failed and its breaker is Open, a task
\* of it was just short-circuited, and a task of the other dependency is in
\* its Source.
C8_Witness ==
    \E c \in Sources, c2 \in Sources :
        /\ c # c2
        /\ c \notin succeeded
        /\ breakers[c].state = OPEN
        /\ res.result.error = "circuit open"
        /\ InFlight(c2) # {}
        /\ breakers[c2].state = CLOSED

\* C9, first part: a task of an unregistered channel returns the "unknown
\* channel" SourceResult at once: no Source is invoked, no pool slot is taken,
\* no breaker is consulted or changed.
C9_UnknownChannelFailsClosed ==
    [][\A t \in Tasks :
          (Exec_Start(t) /\ TaskChannel(t) \notin Sources)
          => (/\ runPc = "collect"
                   => res' = [domain |-> TaskDomain(t),
                              result |-> SourceResult(<<>>, FALSE, "unknown channel")]
              /\ pc'[t] = "done"
              /\ invocations' = invocations
              /\ source_pools' = source_pools
              /\ waiters' = waiters
              /\ breakers' = breakers)]_vars

\* C9 (as claimed), last part: the failure of a task of an unregistered
\* channel is not dropped from what the run reports: when run() has returned,
\* the failures RunMetrics reports include every such task.
C9_UnknownChannelReported ==
    runPc = "returned"
    => metrics.failed_requests
         >= Cardinality({t \in Tasks : TaskChannel(t) \notin Sources})

\* a step of the run other than the passing of time, with every started
\* call returning or raising
RunStep ==
    \/ Run_CreateTasks
    \/ \E t \in Tasks : Exec_Start(t)
    \/ \E t \in Tasks : Exec_Acquire(t)
    \/ \E t \in Tasks, outcome \in FetchOutcomes : Exec_FetchDone(t, outcome)
    \/ \E d \in Domains : An_Start(d)
    \/ \E d \in Domains, ok \in BOOLEAN : An_CacheCleared(d, ok)
    \/ \E d \in Domains, ok \in BOOLEAN, analysis_result \in AnalysisResults :
           An_AnalyzeDone(d, ok, analysis_result)
    \/ Run_CollectAnalysis

\* C10 (as claimed): with every started Source and Analyzer call returning or
\* raising, run() goes on to return: as long as run() has not ended, some
\* coroutine of the run can take a step or some started call is still out.
C10_RunNeverStuck ==
    \/ runPc \in {"returned", "raised", "cancelled"}
    \/ \E t \in Tasks : pc[t] = "hung"
    \/ ENABLED RunStep

\* the tasks of domain d whose fetch returned ok with evidences
FetchedFor(d) == {t \in fetched : TaskDomain(t) = d}

\* the items of an evidence list
Items(evidences) == {evidences[i] : i \in 1..Len(evidences)}

\* the Results run() holds for domain d
ResultsFor(d) == {j \in 1..Len(results) : results[j].domain = d}

\* C11 (as claimed): when run() returns, the Result list has as many entries
\* as the company_domains list it was given, one for each entry.
C11_OneResultPerEntry ==
    runPc = "returned"
    => /\ Len(results) = Len(company_domains)
       /\ \A d \in Domains : Cardinality(ResultsFor(d)) = 1

\* C11, for a list without repetition: when run() returns, the Result list
\* holds exactly one Result for each domain named in company_domains.
C11_OneResultPerDomain ==
    runPc = "returned"
    => /\ Len(results) = Cardinality(Domains)
       /\ \A d \in Domains : Cardinality(ResultsFor(d)) = 1

\* C12: for a domain the run collected no evidence for, analyze_company is
\* never called, and the Result run() returns for it has confidence 0.0,
\* evidence_sources 0, no evidence and no technologies.
C12_NoEvidenceNoAnalysis ==
    \A d \in Domains :
        /\ FetchedFor(d) = {} => analyzer_calls[d] = <<>>
        /\ (runPc = "returned" /\ domain_to_evidence[d] = <<>>)
             => /\ ResultsFor(d) # {}
                /\ \A j \in ResultsFor(d) :
                      /\ results[j].confidence_score = 0
                      /\ results[j].evidence_sources = 0
                      /\ results[j].findings.evidence = <<>>
                      /\ results[j].findings.technologies = <<>>
                      /\ results[j].findings.signals_found = 0

\* C12 witness: run() has returned; one domain ended with no evidence, all
\* its fetches having failed, been short-circuited or come back empty, and
\* the other one was analysed and scored.
C12_Witness ==
    /\ runPc = "returned"
    /\ \E d \in Domains, d2 \in Domains :
          /\ domain_to_evidence[d] = <<>>
          /\ analyzer_calls[d] = <<>>
          /\ domain_to_evidence[d2] # <<>>
          /\ \E j \in ResultsFor(d2) : results[j].confidence_score > 0
    /\ metrics.failed_requests >= 1

\* C13 (as claimed): analyze_company is not called before every fetch task
\* has completed; it is called at most once per domain, with all the
\* evidence the fetches returned for that domain; and once the analysis task
\* of a domain that has evidence is over it was called exactly once.
C13_AnalyzedOnceWithAllEvidence ==
    /\ (\E d \in Domains : analyzer_calls[d] # <<>>)
         => \A t \in Tasks : pc[t] = "done"
    /\ \A d \in Domains :
          /\ Len(analyzer_calls[d]) <= 1
          /\ \A i \in 1..Len(analyzer_calls[d]) :
                /\ Items(analyzer_calls[d][i]) = FetchedFor(d)
                /\ Len(analyzer_calls[d][i]) = Cardinality(FetchedFor(d))
          /\ (anPc[d] \in {"done", "raised"} /\ domain_to_evidence[d] # <<>>)
               => Len(analyzer_calls[d]) = 1

\* C14: when source.fetch() raises, the task returns a SourceResult with
\* ok=False, no evidences and the error text; RunMetrics counts one more
\* failure and no more query, the channel's breaker records one failure and
\* the other breaker is untouched; and the pool slot is given back.
C14_RaisedFetchIsOneFailure ==
    [][\A t \in Tasks :
          Exec_FetchDone(t, "raised")
          => LET c == TaskChannel(t) IN
             /\ pc'[t] = "done"
             /\ runPc = "collect"
                  => /\ res'.domain = TaskDomain(t)
                     /\ ~res'.result.ok
                     /\ res'.result.evidences = <<>>
                     /\ res'.result.error # NoError
             /\ metrics'.failed_requests = metrics.failed_requests + 1
             /\ metrics'.total_queries_executed = metrics.total_queries_executed
             /\ breakers'[c] = record_failure(breakers[c], now)
             /\ breakers'[c].failure_count = breakers[c].failure_count + 1
             /\ \A c2 \in Sources \ {c} : breakers'[c2] = breakers[c2]
             /\ source_pools'[PoolOf(c)] = source_pools[PoolOf(c)] + 1
             /\ \A p \in PoolNames \ {PoolOf(c)} : source_pools'[p] = source_pools[p]]_vars

\* C14 witness: the result run() collected last is that of a fetch that
\* raised; the failure is counted, and the pool is back at full capacity.
C14_Witness ==
    /\ res.result.error = "exc"
    /\ metrics.failed_requests >= 1
    /\ max_parallel_searches >= 1
    /\ \E c \in Sources :
          /\ breakers[c].failure_count >= 1
          /\ source_pools[PoolOf(c)] = max_parallel_searches

\* C15 (as claimed): every fetch task ends with a SourceResult, and run()
\* does not raise while the fetch tasks are running.
C15_FetchFailuresContained ==
    /\ \A t \in Tasks : pc[t] # "raised"
    /\ runPc = "raised" => \E d \in Domains : anPc[d] = "raised"

\* C16 (as claimed): an analysis task that raised, in clear_cache or in
\* analyze_company, does not make run() raise.
C16_AnalysisFailureContained ==
    runPc = "raised" => \A d \in Domains : anPc[d] # "raised"

\* C17 (as claimed): what is recorded for a fetch() that returned follows the
\* ok flag of its SourceResult: ok=True records one query in RunMetrics and
\* record_success() on the breaker, ok=False one failure in RunMetrics and
\* record_failure() on the breaker.
C17_RecordedOutcomeFollowsOk ==
    [][\A t \in Tasks, outcome \in FetchOutcomes \ {"raised"} :
          Exec_FetchDone(t, outcome)
          => LET c == TaskChannel(t) IN
             IF FetchResult(t, outcome).ok
             THEN /\ metrics' = record_query(metrics, 1)
                  /\ breakers'[c] = record_success(breakers[c])
                  /\ breakers'[c].failure_count <= breakers[c].failure_count
             ELSE /\ metrics' = metrics_record_failure(metrics, 1)
                  /\ breakers'[c] = record_failure(breakers[c], now)]_vars

\* C18 (as claimed): a source.fetch() call that does not return is ended by
\* the task as a failure, so the task can still go on to record the failure,
\* give its slot back and return a failed SourceResult.
C18_HungCallEndsAsFailure ==
    \A t \in Tasks : pc[t] = "hung" => ENABLED Exec_FetchDone(t, "raised")

(***************************************************************************)
(* Properties of a stream, checked under SpecStream.                       *)
(***************************************************************************)
\* the positions of the emitted events of one type
EmittedAs(type) == {i \in 1..Len(emitted) : emitted[i].event = type}

\* int() of an id line written by str()
IdValue(id) == CHOOSE n \in 0..(Len(emitted) + 1) : str(n) = id

\* C19: the first event a stream emits is `connected`, its id is 0, and no
\* other event of the stream is a `connected` one.
C19_ConnectedFirstOnce ==
    emitted # <<>>
    => /\ emitted[1].event = "connected"
       /\ emitted[1].id = "0"
       /\ EmittedAs("connected") = {1}

\* C19 witness: a stream that ran to its `completed` event and sent a
\* heartbeat on the way.
C19_Witness ==
    /\ stPc = "done"
    /\ EmittedAs("completed") # {}
    /\ EmittedAs("heartbeat") # {}
    /\ EmittedAs("pipeline_complete") # {}

\* C20 (as claimed): every emitted event has an id, and along the stream the
\* ids strictly increase from the 0 of `connected`.
C20_EveryEventHasIncreasingId ==
    \A i \in 1..Len(emitted) :
        /\ emitted[i].id # NoId
        /\ i = 1 => emitted[i].id = "0"
        /\ i > 1 => IdValue(emitted[i].id) > IdValue(emitted[i - 1].id)

\* C20, for the events that do have an id: they are `connected` and the
\* pipeline's events, and their ids strictly increase from 0.
C20_IdsIncreaseWherePresent ==
    \A i \in 1..Len(emitted), j \in 1..Len(emitted) :
        (i < j /\ emitted[i].id # NoId /\ emitted[j].id # NoId)
        => IdValue(emitted[i].id) < IdValue(emitted[j].id)

\* the pipeline of the stream is a ResearchPipeline: every string it yields
\* is the JSON text of a dict
RealPipeline ==
    \A i \in DOMAIN raw_events : raw_events[i].json /\ raw_events[i].object

CompletedClass == {"pipeline_complete", "completed"}

ProgressClass == {"pipeline_start", "evidence_progress", "evidence_complete",
                  "analysis_start", "domain_analyzed"}

\* the positions of the stream that hold an event of one of the types
Positions(types) == { i \in DOMAIN emitted : emitted[i].event \in types }

\* C21: a stream over a ResearchPipeline that ran to its end without being
\* cancelled holds exactly one terminal event: one completed-class event
\* (pipeline_complete or completed) as its last event, or one error event
\* followed by the stream_error marker as its last two events; never an error
\* and a completed-class event, never two completed-class events.
C21_OneTerminalEvent ==
    (stPc = "done" /\ RealPipeline) =>
        /\ Cardinality(Positions(CompletedClass \cup {"error"})) = 1
        /\ \/ emitted[Len(emitted)].event \in CompletedClass
           \/ /\ Len(emitted) >= 2
              /\ emitted[Len(emitted) - 1].event = "error"
              /\ emitted[Len(emitted)].event = "stream_error"

\* the last event of the stream is the unrecoverable error event with a message
EndsWithFatalError(events) ==
    /\ Len(events) >= 1
    /\ events[Len(events)].event = "error"
    /\ events[Len(events)].data.recoverable = FALSE
    /\ events[Len(events)].data.message # ""

\* C22: when pulling the next pipeline event or formatting it raised an
\* exception other than cancellation, the stream holds an error event with a
\* message and recoverable=false, followed by nothing but the stream_error
\* marker; it holds no completed event, and the generator goes on to return
\* normally.
C22_UnexpectedErrorEndsStream ==
    /\ stPc = "error" =>
          /\ EndsWithFatalError(emitted)
          /\ Positions({"completed"}) = {}
          /\ ENABLED St_Resume
    /\ (stPc = "stream_error" \/ (stPc = "done" /\ Positions({"stream_error"}) # {})) =>
          /\ emitted[Len(emitted)].event = "stream_error"
          /\ EndsWithFatalError(SubSeq(emitted, 1, Len(emitted) - 1))
          /\ Positions({"completed"}) = {}
          /\ stPc = "stream_error" => ENABLED St_Resume

\* the pipeline raised while it was pulled, and the generator has returned
C22_Witness ==
    /\ stPc = "done"
    /\ RealPipeline
    /\ Positions({"stream_error"}) # {}
    /\ raw_pos < Len(raw_events)

C24_HeartbeatWhileWaiting ==
    [][(/\ stPc = "pull"
        /\ raw_pos < Len(raw_events)
        /\ now - yielded_at > heartbeat_interval)
       => now' = now]_vars

\* C25: when the consumer is cancelled, generate_stream emits at most one
\* disconnected notice, which is the last event of the stream (no progress,
\* completed or error event follows it), and the generator does not go on:
\* from the notice it can only re-raise the cancellation or be closed.
C25_CancellationPropagates ==
    Positions({"disconnected"}) # {} =>
        /\ Positions({"disconnected"}) = {Len(emitted)}
        /\ stPc \in {"disconnected", "cancelled", "closed"}
        /\ stPc = "disconnected" => ENABLED St_Resume

\* the stream was cancelled after some pipeline events and has re-raised
C25_Witness ==
    /\ stPc = "cancelled"
    /\ Positions(ProgressClass) # {}
    /\ emitted[Len(emitted)].event = "disconnected"

\* C26: once a run has been cancelled while fetch tasks were pending, the
\* whole run is cancelled: no new Source invocation begins and no breaker or
\* RunMetrics update happens afterwards.
C26_CancelStopsTheRun ==
    [][runPc = "cancelled" =>
          /\ invocations' = invocations
          /\ breakers' = breakers
          /\ metrics' = metrics]_vars

\* the entries entity `state` holds for the dedup key of `evidence`
EntriesFor(state, evidence) ==
    { i \in DOMAIN state.evidences_by_key :
          state.evidences_by_key[i].key = evidence_key(evidence) }

\* C27: add_evidence with an item whose dedup key the entity already holds
\* (the second of two items with the same key) completes, leaving exactly one
\* entry for the key and the evidence counter incremented once for the pair.
C27_DuplicateKeyKeptOnce ==
    agRet.op = "add_evidence" =>
        /\ ~agRet.raised
        /\ LET state == domain_states[StateIndex(domain_states, agRet.domain)] IN
           /\ Cardinality(EntriesFor(state, agRet.new_evidence)) = 1
           /\ state.evidence_count = Len(state.evidences_by_key)

\* the source names of the evidence items an entity holds
HeldSourceNames(state) ==
    { state.evidences_by_key[i].value.source_name : i \in DOMAIN state.evidences_by_key }

\* C28: the evidence-source count reported for an entity is the number of
\* distinct source names of the evidence items it holds, not the number of
\* items; this holds for every entity, and for the result in every update.
C28_SourceCountIsDistinctNames ==
    /\ \A i \in DOMAIN domain_states :
           /\ build_result(domain_states[i]).evidence_sources
                 = Cardinality(HeldSourceNames(domain_states[i]))
           /\ domain_states[i].source_names = HeldSourceNames(domain_states[i])
    /\ (agRet.op = "add_evidence" /\ ~agRet.raised) =>
           agRet.current_result.evidence_sources
             = Cardinality({ agRet.current_result.findings.evidence[j].source_name :
                                 j \in DOMAIN agRet.current_result.findings.evidence })

\* an entity holds two items of one source, and a duplicate of one of them
\* was offered from another source
C28_Witness ==
    /\ agRet.op = "add_evidence"
    /\ agRet.raised
    /\ \E i \in DOMAIN domain_states :
           /\ domain_states[i].domain = agRet.domain
           /\ Len(domain_states[i].evidences_by_key) = 2
           /\ Cardinality(domain_states[i].source_names) = 1
           /\ agRet.new_evidence.source_name \notin domain_states[i].source_names

\* C30: building a snapshot (get_current_results) leaves every entity's held
\* evidence, counters and source-name set unchanged, as well as the set of
\* completed entities and the received-results counter; the snapshot holds,
\* for every entity, the result of the add_evidence calls that have returned:
\* all of a call's effects (entry, counter, source name) or none of them.
C30_SnapshotIsReadOnly ==
    [][agRet'.op = "get_current_results" =>
          /\ domain_states' = domain_states
          /\ completed_domains' = completed_domains
          /\ total_received_results' = total_received_results
          /\ Len(agRet'.results) = Len(domain_states)
          /\ \A i \in DOMAIN domain_states :
                 LET state == domain_states[i]
                     result == agRet'.results[i]
                 IN /\ result.domain = state.domain
                    /\ result.findings.evidence = Values(state.evidences_by_key)
                    /\ Len(result.findings.evidence) = state.evidence_count
                    /\ result.evidence_sources = Cardinality(state.source_names)]_vars

\* a snapshot was taken of two entities, one of them holding two items
C30_Witness ==
    /\ agRet.op = "get_current_results"
    /\ Len(agRet.results) = 2
    /\ \E i \in DOMAIN agRet.results : Len(agRet.results[i].findings.evidence) = 2

\* C29: in the evidence collected for an entity, identical evidence (same URL
\* and title) returned by several queries appears once, whatever the
\* interleaving of the concurrent fetch tasks.
C29_IdenticalEvidenceOnce ==
    \A i, j \in DOMAIN domain_evidence :
        (/\ domain_evidence[i].url = domain_evidence[j].url
         /\ domain_evidence[i].title = domain_evidence[j].title) => i = j

\* the tasks of channel c whose source.fetch() call has begun
Invoked(c) ==
    {t \in Tasks : TaskChannel(t) = c /\ pc[t] \in {"fetching", "hung", "done", "cancelled_in_fetch"}}

\* C31: a run plans exactly |company_domains| x |strategies| fetch tasks and
\* that number is its total_planned; no task invokes its Source more than
\* once, so the Source invocations of a channel never exceed its tasks that
\* got as far as the call, and all invocations together never exceed the
\* number of planned tasks.
C31_PlannedOnceInvokedOnce ==
    runPc # "init" =>
        /\ total_planned = Len(company_domains) * Len(strategies)
        /\ DOMAIN pc = 1..total_planned
        /\ \A c \in Sources : invocations[c] <= Cardinality(Invoked(c))
        /\ invocations["google_search"] + invocations["news_search"] <= total_planned

\* a fetch failed and opened no breaker, every task has finished, and the
\* failed fetch was not called again
C31_Witness ==
    /\ runPc = "returned"
    /\ metrics.failed_requests >= 1
    /\ invocations["google_search"] + invocations["news_search"] = total_planned
    /\ total_planned = 4

\* C32: a fetch during which a call on the evidence cache raised still returns
\* a SourceResult with ok=True, carrying the evidence it retrieved.
C32_CacheFailureDoesNotFailFetch ==
    \A f \in FetchTasks :
        fetchPc[f].cache_raised => fetchPc[f].at = "returned"

\* C40: when the run returns, every entry it recorded in the evidence cache
\* for the entity has been cleared, whatever the outcome of its fetches.
C40_CacheClearedWhenRunReturns ==
    fetchRunPc = "returned" =>
        redis_client = [urls |-> {}, titles |-> {}, snippets |-> {}]

\* C34: is_complete() returns true only when every domain the aggregator
\* holds state for has been marked complete.
C34_CompleteMeansEveryDomainMarked ==
    (agRet.op = "is_complete" /\ agRet.value)
        => \A i \in DOMAIN domain_states :
               domain_states[i].domain \in completed_domains

\* C36: the breaker changes only inside its three operations: a step in
\* which time passes leaves it as it is, so an Open breaker whose reset
\* timeout has elapsed is still Open; an Open breaker becomes HalfOpen in an
\* allow_request() call only; allow_request() never changes the failure
\* counter or the open timestamp and leaves a Closed or HalfOpen breaker
\* entirely unchanged.
C36_AllowRequestFrame ==
    [][ /\ (now' # now => cb' = cb)
        /\ (cb' # cb => lastOp' \in {"allow_request", "record_success",
                                     "record_failure"})
        /\ (cb.state = OPEN /\ cb'.state = HALF_OPEN => lastOp' = "allow_request")
        /\ (lastOp' = "allow_request"
               => /\ cb'.failure_count = cb.failure_count
                  /\ cb'.opened_at = cb.opened_at
                  /\ cb'.failure_threshold = cb.failure_threshold
                  /\ cb'.reset_timeout_seconds = cb.reset_timeout_seconds
                  /\ (cb.state \in {CLOSED, HALF_OPEN} => cb' = cb)) ]_vars

\* an allow_request() call has found the breaker Open with its reset timeout
\* elapsed for some time already, and has made it HalfOpen
C36_Witness ==
    /\ lastOp = "allow_request"
    /\ prev = OPEN
    /\ cb.state = HALF_OPEN
    /\ now - cb.opened_at > cb.reset_timeout_seconds

\* C38: a Closed breaker has its failure counter below the threshold and no
\* open timestamp; an Open breaker has an open timestamp; an Open or HalfOpen
\* breaker has its failure counter at or above the threshold.
C38_BreakerInvariant ==
    /\ cb.state = CLOSED
          => cb.failure_count < cb.failure_threshold /\ cb.opened_at = None
    /\ cb.state = OPEN => cb.opened_at # None
    /\ cb.state \in {OPEN, HALF_OPEN}
          => cb.failure_count >= cb.failure_threshold

\* a breaker that was opened and probed has been closed again by a success
C38_Witness ==
    /\ lastOp = "record_success"
    /\ prev = HALF_OPEN
    /\ cb.state = CLOSED

\* the slots a pool is built with (pipeline.py:36-41)
Capacity(p) ==
    IF p = "default_pool" THEN Max(max_parallel_searches \div 4, 2)
    ELSE max_parallel_searches

\* the tasks that hold a slot of pool p: those inside the `async with` block
Holders(p) ==
    {t \in Tasks : pc[t] \in {"fetching", "hung"} /\ PoolOf(TaskChannel(t)) = p}

\* the tasks that have ended: returned, raised or cancelled
Finished ==
    {t \in Tasks : pc[t] \in {"done", "raised", "cancelled", "cancelled_in_fetch"}}

\* C35: a slot taken for a source.fetch() call is given back however the call
\* ends (it returns, raises, or the task is cancelled): the free slots of a
\* pool are its capacity less the tasks now inside a call, never more than
\* the capacity, and every pool is at full capacity once every task of the
\* run has ended.
C35_SlotsAlwaysReleased ==
    runPc # "init" =>
        /\ \A p \in PoolNames :
              /\ source_pools[p] <= Capacity(p)
              /\ source_pools[p] = Capacity(p) - Cardinality(Holders(p))
        /\ Finished = Tasks
              => \A p \in PoolNames : source_pools[p] = Capacity(p)

\* every task has ended, among them one whose fetch raised or failed, one
\* whose fetch returned evidence and one that was cancelled inside its call,
\* and the pools are full again
C35_Witness ==
    /\ runPc = "cancelled"
    /\ Tasks # {}
    /\ Finished = Tasks
    /\ max_parallel_searches >= 1
    /\ metrics.failed_requests >= 1
    /\ metrics.total_queries_executed >= 1
    /\ \E t \in Tasks : pc[t] = "cancelled_in_fetch"
    /\ \A p \in PoolNames : source_pools[p] = Capacity(p)

\* the source.fetch() calls that have completed: those begun, less those
\* still out and those ended by a cancellation
CompletedInvocations ==
    invocations["google_search"] + invocations["news_search"]
        - Cardinality({t \in Tasks :
                          pc[t] \in {"fetching", "hung", "cancelled_in_fetch"}})

\* C39: at every point of a run, the queries RunMetrics counts as executed
\* plus the failures it counts are the source.fetch() calls that have
\* completed, the executed ones being the calls that returned evidence; a
\* step changes the sum only by completing one call, and then by one; tasks
\* that ended as "circuit open" or "unknown channel" are in neither count, and
\* the sum never exceeds the number of planned tasks.
C39_MetricsCountCompletedCalls ==
    runPc # "init" =>
        /\ metrics.total_queries_executed + metrics.failed_requests
               = CompletedInvocations
        /\ metrics.total_queries_executed = Cardinality(fetched)
        /\ metrics.total_queries_executed + metrics.failed_requests
               <= total_planned

\* every task has returned: one after a fetch that returned evidence, one
\* after a fetch that failed, and one without calling its Source at all
C39_Witness ==
    /\ Tasks # {}
    /\ \A t \in Tasks : pc[t] = "done"
    /\ metrics.total_queries_executed >= 1
    /\ metrics.failed_requests >= 1
    /\ metrics.total_queries_executed + metrics.failed_requests < total_planned

\* C33: for the same entities and strategies and the same outcome of every
\* Source and Analyzer call, run_stream_optimized() goes through the phases
\* run() goes through, collects the same evidence per entity from the same
\* task results, has its analysis tasks made for the same entities and the
\* Analyzer called with the same evidence, and its pipeline_complete event
\* carries the set of per-entity Results that run() returns.
C33_StreamMatchesRun ==
    /\ streamPc = runPc
    /\ stream_completed_count = completed_count
    /\ stream_domain_to_evidence = domain_to_evidence
    /\ streamPc = "analyze"
          => \A d \in Domains :
                /\ anPc[d] # "none" <=> stream_domain_to_evidence[d] # <<>>
                /\ \A i \in DOMAIN analyzer_calls[d] :
                      analyzer_calls[d][i] = stream_domain_to_evidence[d]
    /\ runPc = "returned"
          => LET last == stream_events[Len(stream_events)] IN
             /\ last.type = "pipeline_complete"
             /\ Items(last.results) = Items(results)
             /\ Len(last.results) = Len(results)

\* both have ended after analysing one entity and finding no evidence for the
\* other
C33_Witness ==
    /\ runPc = "returned"
    /\ streamPc = "returned"
    /\ Len(results) = 2
    /\ \E i \in DOMAIN results : results[i] = build_empty_result(results[i].domain)
    /\ \E i \in DOMAIN results : results[i].evidence_sources > 0
    /\ stream_events[Len(stream_events)].type = "pipeline_complete"

\* the phase an event of run_stream_optimized() belongs to
Phase(type) ==
    CASE type = "pipeline_start" -> 0
      [] type = "evidence_progress" -> 1
      [] type = "evidence_complete" -> 2
      [] type = "analysis_start" -> 3
      [] type = "domain_analyzed" -> 4
      [] type = "pipeline_complete" -> 5

\* the positions of the yielded events of the given type
Yielded(type) == {i \in DOMAIN stream_events : stream_events[i].type = type}

\* C37: the events of a streaming run come in phase order: pipeline_start is
\* the first, then evidence_progress events with strictly increasing
\* percentages out of 25, 50, 75 and 100, then one evidence_complete, yielded
\* only once every fetch task has returned and, when a task was planned,
\* after the one progress event of 100, then analysis_start, then the
\* domain_analyzed events, then pipeline_complete; a run that has returned
\* has yielded exactly one evidence_complete, one analysis_start, one
\* domain_analyzed per entity with evidence and one pipeline_complete, its
\* last event.
C37_EventsInPhaseOrder ==
    /\ streamPc # "init"
          => stream_events # <<>> /\ stream_events[1].type = "pipeline_start"
    /\ \A i, j \in DOMAIN stream_events :
          i < j =>
             LET a == stream_events[i]
                 b == stream_events[j]
             IN
             /\ Phase(a.type) <= Phase(b.type)
             /\ Phase(a.type) = Phase(b.type)
                   => a.type \in {"evidence_progress", "domain_analyzed"}
             /\ a.type = "evidence_progress" /\ b.type = "evidence_progress"
                   => a.progress < b.progress
    /\ \A i \in Yielded("evidence_progress") :
          stream_events[i].progress \in progress_updates
    /\ \A i \in Yielded("evidence_complete") :
          /\ \A t \in Tasks : pc[t] = "done"
          /\ i < Len(stream_events) /\ stream_events[i + 1].type = "analysis_start"
          /\ NumTasks >= 1
                => Cardinality({k \in Yielded("evidence_progress") :
                                   stream_events[k].progress = 100}) = 1
    /\ Cardinality(Yielded("domain_analyzed"))
          <= Cardinality(Domains \ MissingDomains(stream_domain_to_evidence))
    /\ streamPc = "returned"
          => /\ Cardinality(Yielded("evidence_complete")) = 1
             /\ Cardinality(Yielded("analysis_start")) = 1
             /\ Cardinality(Yielded("domain_analyzed"))
                   = Cardinality(Domains \ MissingDomains(stream_domain_to_evidence))
             /\ Yielded("pipeline_complete") = {Len(stream_events)}

\* a streaming run of four tasks has returned after yielding the four
\* progress events and a domain_analyzed event
C37_Witness ==
    /\ streamPc = "returned"
    /\ NumTasks = 4
    /\ Cardinality(Yielded("evidence_progress")) = 4
    /\ Yielded("domain_analyzed") # {}
====
